---- MODULE Spec2Model ----
(***************************************************************************)
(* Prism userspace network stack: the packet classifier and SYN trap       *)
(* (src/src/trap.rs), the virtual PHY (src/src/device.rs) and the stack    *)
(* event loop with its two handshake modes (src/src/stack.rs).             *)
(*                                                                         *)
(* A packet is a record of the header fields the code reads.  The bytes of *)
(* the TCP segment after its 20 fixed bytes are kept as a sequence of      *)
(* numbers (tail), because clamp_mss_raw walks them one by one.            *)
(***************************************************************************)
EXTENDS Naturals, Integers, Sequences, FiniteSets, TLC

VARIABLES
    mode,             \* config.handshake_mode
    egress_mtu,       \* the egress MTU the embedding program configures
    tunnel_req_tx,    \* TRUE when set_tunnel_request_sender was called
    blind_relay_tx,   \* TRUE when set_blind_relay_sender was called
    rx_queue,         \* device.rx_queue: TUN reader -> stack
    pending_packets,  \* device.pending_packets
    tx_queue,         \* device.tx_queue: stack -> TUN writer
    relay_q,          \* the blind-relay channel
    req_q,            \* the tunnel request channel
    sockets,          \* SocketSet: handle -> socket
    active_tunnels,   \* handle -> tunnel (its tx_to_remote channel)
    ingress_streams,  \* fan-in: set of [h, tun]
    pending_syns,     \* target -> [packet, tun]
    feedback_q,       \* feedback channel: <<target, success>>
    tasks,            \* spawned wait tasks: tun -> [target, val]
    egress_ch,        \* tun -> contents of the stack -> relayer channel
    ingress_ch,       \* tun -> contents of the relayer -> stack channel (absent: empty)
    ip_addrs,         \* interface address list
    pc,               \* position of the event loop
    count,            \* packets handled in the current batch
    nPkts,            \* packets produced by the TUN reader so far
    nTun,             \* tunnel channel pairs created so far
    reqInfo,          \* history: tun -> the SYN its request was made for
    okTunnels,        \* history: tunnels whose confirmation was true
    droppedSyns,      \* history: ids of buffered SYNs dropped on failure
    emittedNow,       \* packets written through a transmit token in this iteration
    trapsNow,         \* history: the traps handled in this iteration
    inPkt,            \* trap check: the packet handed to the trap
    outEv,            \* trap check: what inspect_packet returned
    outTy,            \* trap check: what get_packet_type returned
    outAgain,         \* trap check: what inspect_packet returned for the stored packet
    tpc,              \* trap check: position
    tx_pool,          \* PHY: the pooled transmit buffers (their capacities)
    txRes,            \* PHY check: the last call of a transmit token and its result
    offIn,            \* offload codec check: the header, buffer or packet handed in
    offOut,           \* offload codec check: what the codec returned
    opc,              \* offload codec check: position
    closed            \* ends: channel ends the other tasks dropped ("tun": the TUN
                      \* reader's sender, "req": the relayer's request receiver);
                      \* tunnels: tunnels whose channel ends the relayer dropped

vars == <<mode, egress_mtu, tunnel_req_tx, blind_relay_tx, rx_queue, pending_packets,
          tx_queue, relay_q, req_q, sockets, active_tunnels, ingress_streams,
          pending_syns, feedback_q, tasks, egress_ch, ip_addrs, pc, count, nPkts,
          nTun, reqInfo, okTunnels, droppedSyns, emittedNow, trapsNow,
          inPkt, outEv, outTy, outAgain, tpc, offIn, offOut, opc, closed, ingress_ch,
          tx_pool, txRes>>

stackVars == <<mode, tunnel_req_tx, blind_relay_tx, rx_queue, pending_packets,
          tx_queue, relay_q, req_q, sockets, active_tunnels, ingress_streams,
          pending_syns, feedback_q, tasks, egress_ch, ip_addrs, pc, count, nPkts,
          nTun, reqInfo, okTunnels, droppedSyns, emittedNow, trapsNow, closed,
          ingress_ch, tx_pool, txRes>>

trapVars == <<inPkt, outEv, outTy, outAgain, tpc>>

offVars == <<offIn, offOut, opc>>

\* the configuration, fixed after construction, and the variables of the trap, codec
\* and transmit token checks
configVars == <<mode, egress_mtu, tunnel_req_tx, blind_relay_tx, inPkt, outEv, outTy, outAgain, tpc,
                offIn, offOut, opc, tx_pool, txRes>>

\* what no step of Event A, C and D, of the poll and the pump, of the TUN tasks and
\* of the relayer's request handling changes: the configuration, the dropped channel
\* ends and the tunnel ingress channels
fixedVars == <<configVars, closed, ingress_ch>>

(***************************************************************************)
(* Bounds of the model.                                                    *)
(***************************************************************************)
MaxPkts == 3        \* packets the TUN reader produces in a run
MaxOpts == 2        \* TCP options in an enumerated option area
ReqCap == 1         \* capacity of the tunnel request channel
EgressCap == 1      \* capacity of a tunnel's stack -> relayer channel
TxCap == 2          \* capacity of the TUN writer channel
IFACE_MAX_ADDR_COUNT == 3   \* capacity of the interface address list (the library's
                            \* build-time constant; two entries are the gateways)
RelayCap == 1       \* capacity of the blind-relay channel
MaxSyns == 2        \* SYNs the TUN reader produces under fair scheduling
MaxExt == 11        \* extension headers chained in an IPv6 input
MaxHdrBuf == 11      \* bytes of the buffers handed to VirtioNetHdr::parse
MaxPktLen == 41      \* bytes of the longest packet handed to the offload codec
BatchLimit == 2     \* packets handled per wake-up (64 in the code)

(***************************************************************************)
(* Program constants.                                                      *)
(***************************************************************************)
DEFAULT_MSS_CLAMP == 1280
TcpHeaderLen == 20
ExtWalkLimit == 10

Min(a, b) == IF a < b THEN a ELSE b

Range(s) == {s[i] : i \in 1..Len(s)}

(***************************************************************************)
(* Packets.                                                                *)
(*   id      serial number given by the TUN reader (history, not a byte)   *)
(*   empty   the buffer has no byte                                        *)
(*   ver     buffer[0] >> 4                                                *)
(*   ipOk    Ipv4Packet / Ipv6Packet ::new_checked accepts the buffer      *)
(*   ext     IPv6 extension headers; fits = the header's first two bytes   *)
(*           lie inside the buffer                                         *)
(*   proto   the protocol after the IP header and the extension headers    *)
(*   segHdr  the TCP segment holds its 20 fixed bytes                      *)
(*   doff    the TCP data offset, in 32-bit words                          *)
(*   tail    the bytes of the TCP segment after the 20 fixed bytes         *)
(*   ipCsum, tcpCsum   the checksum stored in the header is the right one  *)
(*   data    the payload unit a data segment carries (0: none)             *)
(***************************************************************************)
Clients == {"c1", "c2"}
NoClient == "none"

Target(i, p) == [ip |-> i, port |-> p]

T80 == Target("a", 80)
T0 == Target("a", 0)

Mss(hi, lo) == hi * 256 + lo

BasePkt ==
    [id |-> 0, empty |-> FALSE, ver |-> 4, ipOk |-> TRUE, ext |-> <<>>, proto |-> "tcp",
     segHdr |-> TRUE, doff |-> 6, syn |-> FALSE, ack |-> FALSE, rst |-> FALSE,
     src |-> "c1", dst |-> T80, tail |-> <<2, 4, 5, 180>>, ipCsum |-> TRUE,
     tcpCsum |-> TRUE, data |-> 0, fin |-> FALSE]

Unknown == "Unknown"
Tcp == "Tcp"
Other == "Other"

ExtKinds == {"HopByHop", "Ipv6Route", "Ipv6Frag", "Ipv6Opts"}

\* skip_ipv6_headers: i is the extension header next_header names (past the last one:
\* next_header is p.proto), n the iterations of the for loop done so far.
RECURSIVE SkipWalk(_, _, _)
SkipWalk(p, i, n) ==
    IF n = ExtWalkLimit THEN [ok |-> FALSE, proto |-> "none", off |-> i - 1]
    ELSE IF i > Len(p.ext) THEN [ok |-> TRUE, proto |-> p.proto, off |-> i - 1]
    ELSE IF ~p.ext[i].fits THEN [ok |-> FALSE, proto |-> "none", off |-> i - 1]
    ELSE SkipWalk(p, i + 1, n + 1)

skip_ipv6_headers(p) ==
    IF ~p.ipOk THEN [ok |-> FALSE, proto |-> "none", off |-> 0]
    ELSE SkipWalk(p, 1, 0)

\* get_packet_type without the checked parse of the IPv4 header
get_packet_type_NoValidate(p) ==
    IF p.empty THEN Unknown
    ELSE IF p.ver = 4 THEN (IF p.proto = "tcp" THEN Tcp ELSE Other)
    ELSE IF p.ver = 6 THEN
        IF p.ipOk
        THEN LET r == skip_ipv6_headers(p)
             IN IF r.ok /\ r.proto = "tcp" THEN Tcp ELSE Other
        ELSE Unknown
    ELSE Unknown

get_packet_type(p) ==
    IF p.empty THEN Unknown
    ELSE IF p.ver = 4 THEN
        IF p.ipOk THEN (IF p.proto = "tcp" THEN Tcp ELSE Other) ELSE Unknown
    ELSE IF p.ver = 6 THEN
        IF p.ipOk
        THEN LET r == skip_ipv6_headers(p)
             IN IF r.ok /\ r.proto = "tcp" THEN Tcp ELSE Other
        ELSE Unknown
    ELSE Unknown

\* TcpPacket::new_checked on the TCP segment
TcpChecked(p) ==
    /\ p.segHdr
    /\ p.doff * 4 >= TcpHeaderLen
    /\ p.doff * 4 <= TcpHeaderLen + Len(p.tail)

\* The while loop of clamp_mss_raw over options (o[1..n], i counted from 0).
\* A TLV option other than MSS with a length byte of 0 leaves i unchanged: the
\* loop then never ends (hang).
RECURSIVE ClampWalk(_, _)
ClampWalk(o, i) ==
    IF i >= Len(o) THEN [hang |-> FALSE, opts |-> o]
    ELSE LET kind == o[i + 1]
         IN IF kind = 0 \/ kind = 1 THEN ClampWalk(o, i + 1)
            ELSE IF i + 1 >= Len(o) THEN [hang |-> FALSE, opts |-> o]
            ELSE LET len == o[i + 2]
                 IN IF i + len > Len(o) THEN [hang |-> FALSE, opts |-> o]
                    ELSE IF kind = 2 THEN
                        IF len = 4 /\ Mss(o[i + 3], o[i + 4]) > DEFAULT_MSS_CLAMP
                        THEN [hang |-> FALSE,
                              opts |-> [o EXCEPT ![i + 3] = DEFAULT_MSS_CLAMP \div 256,
                                                 ![i + 4] = DEFAULT_MSS_CLAMP % 256]]
                        ELSE [hang |-> FALSE, opts |-> o]
                    ELSE IF len = 0 THEN [hang |-> TRUE, opts |-> o]
                    ELSE ClampWalk(o, i + len)

\* a clamp that lowers the MSS it finds in front of the option area by one
clamp_mss_raw_Below(p) ==
    IF /\ TcpChecked(p) /\ p.doff >= 6 /\ Len(p.tail) >= 4
       /\ p.tail[1] = 2 /\ p.tail[2] = 4 /\ p.tail[4] > 0
    THEN [hang |-> FALSE, tail |-> [p.tail EXCEPT ![4] = @ - 1]]
    ELSE [hang |-> FALSE, tail |-> p.tail]

\* clamp_mss_raw on the TCP segment of p: the new tail, or hang
clamp_mss_raw(p) ==
    IF ~p.segHdr THEN [hang |-> FALSE, tail |-> p.tail]
    ELSE IF p.doff * 4 < TcpHeaderLen \/ p.doff * 4 > TcpHeaderLen + Len(p.tail)
    THEN [hang |-> FALSE, tail |-> p.tail]
    ELSE LET n == p.doff * 4 - TcpHeaderLen
             w == ClampWalk(SubSeq(p.tail, 1, n), 0)
         IN [hang |-> w.hang, tail |-> w.opts \o SubSeq(p.tail, n + 1, Len(p.tail))]

NoTrap == [tag |-> "none"]
HangTrap == [tag |-> "hang"]

\* the flag test of inspect_tcp
should_clamp(p) == TcpChecked(p) /\ p.syn /\ ~p.ack

inspect_tcp(p) ==
    IF p.ver = 4 THEN
        IF p.ipOk /\ should_clamp(p)
        THEN LET c == clamp_mss_raw(p)
             IN IF c.hang THEN HangTrap
                ELSE [tag |-> "some", dst |-> p.dst,
                      packet |-> [p EXCEPT !.tail = c.tail, !.tcpCsum = TRUE,
                                           !.ipCsum = TRUE]]
        ELSE NoTrap
    ELSE IF p.ver = 6 THEN
        IF p.ipOk
        THEN LET r == skip_ipv6_headers(p)
             IN IF r.ok /\ r.proto = "tcp" /\ should_clamp(p)
                THEN LET c == clamp_mss_raw(p)
                     IN IF c.hang THEN HangTrap
                        ELSE [tag |-> "some", dst |-> p.dst,
                              packet |-> [p EXCEPT !.tail = c.tail, !.tcpCsum = TRUE]]
                ELSE NoTrap
        ELSE NoTrap
    ELSE NoTrap

inspect_ipv4(p) ==
    IF ~p.ipOk THEN NoTrap
    ELSE IF p.proto # "tcp" THEN NoTrap
    ELSE inspect_tcp(p)

inspect_ipv6(p) ==
    IF ~p.ipOk THEN NoTrap
    ELSE LET r == skip_ipv6_headers(p)
         IN IF r.ok /\ r.proto = "tcp" THEN inspect_tcp(p) ELSE NoTrap

\* buffer.len() < 20 holds of the empty buffer; a buffer new_checked accepts has
\* at least 20 bytes, and one it rejects ends in None on either path.
inspect_packet(p) ==
    IF p.empty THEN NoTrap
    ELSE IF p.ver = 4 THEN inspect_ipv4(p)
    ELSE IF p.ver = 6 THEN inspect_ipv6(p)
    ELSE NoTrap


(***************************************************************************)
(* The socket set and the TCP/IP library's poll.                           *)
(* A socket: state, local (its listen endpoint), remote (the client of its *)
(* connection, NoClient while listening), rx (its receive buffer).         *)
(***************************************************************************)
\* SocketSet::add takes the first free slot
NewHandle(S) ==
    CHOOSE h \in 0..Cardinality(DOMAIN S) :
        h \notin DOMAIN S /\ \A g \in 0..(h - 1) : g \in DOMAIN S

Without(f, x) == [y \in (DOMAIN f) \ {x} |-> f[y]]

\* rx: the receive buffer; tx: the send buffer, of which the first sent units are
\* transmitted and wait for the client's acknowledgement
NewSocket(t) ==
    [state |-> "Listen", local |-> t, remote |-> NoClient, rx |-> <<>>, tx |-> <<>>,
     sent |-> 0]

Reply(kind, p) == [kind |-> kind, src |-> p.dst, dst |-> p.src]

\* tcp::Socket::accepts
Accepts(s, p) ==
    /\ s.state # "Closed"
    /\ ~(s.state = "Listen" /\ p.ack)
    /\ IF s.remote # NoClient
       THEN p.dst = s.local /\ p.src = s.remote
       ELSE p.dst = s.local /\ p.dst.port # 0

\* tcp::Socket::process: the socket after segment p, and the reply it sends
Process(s, p) ==
    IF s.state = "Listen" THEN
        IF p.syn /\ ~p.rst
        THEN [sock |-> [s EXCEPT !.state = "SynReceived", !.remote = p.src],
              out |-> <<Reply("synack", p)>>]
        ELSE [sock |-> s, out |-> <<>>]
    ELSE IF ~p.ack THEN [sock |-> s, out |-> <<>>]
    ELSE IF p.rst THEN
        IF s.state = "SynReceived"
        THEN [sock |-> [s EXCEPT !.state = "Listen", !.remote = NoClient], out |-> <<>>]
        ELSE [sock |-> [s EXCEPT !.state = "Closed", !.remote = NoClient], out |-> <<>>]
    ELSE IF p.syn THEN [sock |-> s, out |-> <<>>]
    ELSE LET est == IF s.state = "SynReceived" THEN "Established" ELSE s.state
             \* the client's FIN on an open connection: the socket waits for the
             \* local side to close
             fin == p.fin /\ est = "Established"
             \* the segment acknowledges what was transmitted: it leaves the send buffer
             acked == [s EXCEPT !.state = IF fin THEN "CloseWait" ELSE est,
                                !.tx = SubSeq(s.tx, s.sent + 1, Len(s.tx)), !.sent = 0]
         IN IF p.data # 0 /\ est = "Established"
            THEN [sock |-> [acked EXCEPT !.rx = Append(s.rx, p.data)],
                  out |-> <<Reply("ack", p)>>]
            ELSE [sock |-> acked, out |-> IF fin THEN <<Reply("ack", p)>> ELSE <<>>]

\* Interface::poll on one ingress packet: the sockets after it, and what is sent
ProcessOne(S, addrs, p) ==
    IF p.empty \/ p.ver \notin {4, 6} \/ ~p.ipOk \/ ~p.ipCsum THEN [socks |-> S, out |-> <<>>]
    ELSE IF p.proto = "tcp" /\ p.syn /\ p.rst THEN [socks |-> S, out |-> <<>>]
    ELSE IF p.dst.ip \notin Range(addrs) THEN [socks |-> S, out |-> <<>>]
    ELSE IF p.proto # "tcp" THEN [socks |-> S, out |-> <<Reply("icmp", p)>>]
    ELSE IF ~TcpChecked(p) \/ ~p.tcpCsum THEN [socks |-> S, out |-> <<>>]
    ELSE LET acc == {h \in DOMAIN S : Accepts(S[h], p)}
         IN IF acc = {}
            THEN [socks |-> S, out |-> IF p.rst THEN <<>> ELSE <<Reply("rst", p)>>]
            ELSE LET h == CHOOSE g \in acc : \A f \in acc : g <= f
                     r == Process(S[h], p)
                 IN [socks |-> [S EXCEPT ![h] = r.sock], out |-> r.out]

\* tcp::Socket::may_send
may_send(s) == s.state \in {"Established", "CloseWait"}

\* tcp::Socket::dispatch: a socket that may send and holds bytes not yet transmitted
\* sends them in one segment
Sends(s) == may_send(s) /\ s.sent < Len(s.tx)

\* the sockets after the egress half of Interface::poll
DispatchSocks(S) ==
    [h \in DOMAIN S |-> IF Sends(S[h]) THEN [S[h] EXCEPT !.sent = Len(S[h].tx)] ELSE S[h]]

\* the segments of the egress half of Interface::poll, the sockets of hs in handle order
RECURSIVE DispatchOut(_, _)
DispatchOut(S, hs) ==
    IF hs = {} THEN <<>>
    ELSE LET h == CHOOSE x \in hs : \A y \in hs : x <= y
         IN (IF Sends(S[h])
             THEN <<[kind |-> "data", src |-> S[h].local, dst |-> S[h].remote]>>
             ELSE <<>>) \o DispatchOut(S, hs \ {h})

\* Interface::poll over the PHY queue, front first
RECURSIVE PollAll(_, _, _)
PollAll(S, addrs, q) ==
    IF q = <<>> THEN [socks |-> DispatchSocks(S), out |-> DispatchOut(S, DOMAIN S)]
    ELSE \* one: the front packet is processed; rest: then the others (the
         \* singleton sets make each of them be computed once)
         CHOOSE res \in
            UNION {{[socks |-> rest.socks, out |-> one.out \o rest.out] :
                       rest \in {PollAll(one.socks, addrs, Tail(q))}} :
                   one \in {ProcessOne(S, addrs, Head(q))}} : TRUE

\* TxTokenImpl::consume for each packet of out: try_send, dropped when tx_queue is full
RECURSIVE TxConsume(_, _)
TxConsume(q, out) ==
    IF out = <<>> THEN q
    ELSE TxConsume(IF Len(q) < TxCap THEN Append(q, Head(out)) ELSE q, Tail(out))


(***************************************************************************)
(* The handshake controller (stack.rs).                                    *)
(***************************************************************************)
Request(t, k, resp) == [target |-> t, tun |-> k, resp |-> resp]

\* req_tx.try_send succeeds: the request channel has room and its receiver lives
ReqRoom == Len(req_q) < ReqCap /\ "req" \notin closed.ends

\* what the trap of pkt is remembered by: ok = the listen and the tunnel request
\* of the Fast path both succeed in the state the trap is handled in
TrapNote(event, pkt) ==
    [id |-> pkt.id, src |-> pkt.src, dst |-> event.dst,
     ok |-> event.dst.port # 0 /\ tunnel_req_tx /\ ReqRoom]

\* initiate_fast_handshake without the push of the SYN into the PHY pending queue
initiate_fast_handshake_NoPush(event, pkt) ==
    IF event.dst.port = 0 \/ (tunnel_req_tx /\ ~ReqRoom)
    THEN UNCHANGED <<sockets, pending_packets, req_q, active_tunnels, ingress_streams,
                     egress_ch, nTun, reqInfo>>
    ELSE LET h == NewHandle(sockets)
             k == nTun + 1
         IN /\ pending_packets' = pending_packets
            /\ sockets' = (h :> NewSocket(event.dst)) @@ sockets
            /\ IF tunnel_req_tx
               THEN /\ req_q' = Append(req_q, Request(event.dst, k, FALSE))
                    /\ active_tunnels' = (h :> k) @@ active_tunnels
                    /\ ingress_streams' = ingress_streams \cup {[h |-> h, tun |-> k]}
                    /\ egress_ch' = (k :> <<>>) @@ egress_ch
                    /\ nTun' = k
                    /\ reqInfo' = (k :> [src |-> pkt.src, target |-> event.dst,
                                         id |-> pkt.id]) @@ reqInfo
               ELSE UNCHANGED <<req_q, active_tunnels, ingress_streams, egress_ch,
                                nTun, reqInfo>>

\* initiate_fast_handshake that keeps the socket when the request is not enqueued
initiate_fast_handshake_KeepSocket(event, pkt) ==
    IF event.dst.port = 0
    THEN UNCHANGED <<sockets, pending_packets, req_q, active_tunnels, ingress_streams,
                     egress_ch, nTun, reqInfo>>
    ELSE LET h == NewHandle(sockets)
             k == nTun + 1
         IN /\ pending_packets' = Append(pending_packets, pkt)
            /\ sockets' = (h :> NewSocket(event.dst)) @@ sockets
            /\ IF tunnel_req_tx /\ ReqRoom
               THEN /\ req_q' = Append(req_q, Request(event.dst, k, FALSE))
                    /\ active_tunnels' = (h :> k) @@ active_tunnels
                    /\ ingress_streams' = ingress_streams \cup {[h |-> h, tun |-> k]}
                    /\ egress_ch' = (k :> <<>>) @@ egress_ch
                    /\ nTun' = k
                    /\ reqInfo' = (k :> [src |-> pkt.src, target |-> event.dst,
                                         id |-> pkt.id]) @@ reqInfo
               ELSE UNCHANGED <<req_q, active_tunnels, ingress_streams, egress_ch,
                                nTun, reqInfo>>

\* initiate_fast_handshake that registers the tunnel before the request is offered
\* and, when try_send fails, removes the socket only
initiate_fast_handshake_RegisterFirst(event, pkt) ==
    IF event.dst.port = 0
    THEN UNCHANGED <<sockets, pending_packets, req_q, active_tunnels, ingress_streams,
                     egress_ch, nTun, reqInfo>>
    ELSE LET h == NewHandle(sockets)
             k == nTun + 1
         IN /\ pending_packets' = Append(pending_packets, pkt)
            /\ IF tunnel_req_tx
               THEN /\ active_tunnels' = (h :> k) @@ active_tunnels
                    /\ ingress_streams' = ingress_streams \cup {[h |-> h, tun |-> k]}
                    /\ egress_ch' = (k :> <<>>) @@ egress_ch
                    /\ nTun' = k
                    /\ reqInfo' = (k :> [src |-> pkt.src, target |-> event.dst,
                                         id |-> pkt.id]) @@ reqInfo
                    /\ IF ~ReqRoom
                       THEN UNCHANGED <<sockets, req_q>>
                       ELSE /\ sockets' = (h :> NewSocket(event.dst)) @@ sockets
                            /\ req_q' = Append(req_q, Request(event.dst, k, FALSE))
               ELSE /\ sockets' = (h :> NewSocket(event.dst)) @@ sockets
                    /\ UNCHANGED <<req_q, active_tunnels, ingress_streams, egress_ch,
                                   nTun, reqInfo>>

initiate_fast_handshake(event, pkt) ==
    IF event.dst.port = 0
    THEN \* socket.listen fails: return
         UNCHANGED <<sockets, pending_packets, req_q, active_tunnels, ingress_streams,
                     egress_ch, nTun, reqInfo>>
    ELSE LET h == NewHandle(sockets)
             k == nTun + 1
         IN /\ pending_packets' = Append(pending_packets, pkt)
            /\ IF tunnel_req_tx
               THEN IF ~ReqRoom
                    THEN \* try_send fails: sockets.remove(handle)
                         UNCHANGED <<sockets, req_q, active_tunnels, ingress_streams,
                                     egress_ch, nTun, reqInfo>>
                    ELSE /\ sockets' = (h :> NewSocket(event.dst)) @@ sockets
                         /\ req_q' = Append(req_q, Request(event.dst, k, FALSE))
                         /\ active_tunnels' = (h :> k) @@ active_tunnels
                         /\ ingress_streams' = ingress_streams \cup {[h |-> h, tun |-> k]}
                         /\ egress_ch' = (k :> <<>>) @@ egress_ch
                         /\ nTun' = k
                         /\ reqInfo' = (k :> [src |-> pkt.src, target |-> event.dst,
                                              id |-> pkt.id]) @@ reqInfo
               ELSE /\ sockets' = (h :> NewSocket(event.dst)) @@ sockets
                    /\ UNCHANGED <<req_q, active_tunnels, ingress_streams, egress_ch,
                                   nTun, reqInfo>>

initiate_consistent_handshake(event, pkt) ==
    IF tunnel_req_tx /\ ReqRoom
    THEN LET k == nTun + 1
         IN /\ req_q' = Append(req_q, Request(event.dst, k, TRUE))
            /\ pending_syns' =
                 [t \in DOMAIN pending_syns \cup {event.dst} |->
                     IF t = event.dst THEN [packet |-> pkt, tun |-> k]
                     ELSE pending_syns[t]]
            /\ tasks' = (k :> [target |-> event.dst, val |-> "wait"]) @@ tasks
            /\ egress_ch' = (k :> <<>>) @@ egress_ch
            /\ nTun' = k
            /\ reqInfo' = (k :> [src |-> pkt.src, target |-> event.dst,
                                 id |-> pkt.id]) @@ reqInfo
    ELSE UNCHANGED <<req_q, pending_syns, tasks, egress_ch, nTun, reqInfo>>

\* the update_ip_addrs closure of handle_trap: push unless contained; the list is
\* a vector of fixed capacity and the result of push is discarded
AddAddr(addrs, ip) ==
    IF ip \in Range(addrs) THEN addrs
    ELSE IF Len(addrs) < IFACE_MAX_ADDR_COUNT THEN Append(addrs, ip)
    ELSE addrs

handle_trap(event, pkt) ==
    /\ ip_addrs' = AddAddr(ip_addrs, event.dst.ip)
    /\ trapsNow' = trapsNow \cup {TrapNote(event, pkt)}
    /\ IF mode = "Consistent"
       THEN /\ initiate_consistent_handshake(event, pkt)
            /\ UNCHANGED <<sockets, pending_packets, active_tunnels, ingress_streams>>
       ELSE /\ initiate_fast_handshake(event, pkt)
            /\ UNCHANGED <<pending_syns, tasks>>

\* handle_handshake_feedback that re-injects the buffered SYN whatever the answer
handle_handshake_feedback_AnyAnswer(target, success) ==
    IF target \in DOMAIN pending_syns
    THEN LET e == pending_syns[target]
             h == NewHandle(sockets)
         IN /\ pending_syns' = Without(pending_syns, target)
            /\ sockets' = (h :> NewSocket(target)) @@ sockets
            /\ active_tunnels' = (h :> e.tun) @@ active_tunnels
            /\ ingress_streams' = ingress_streams \cup {[h |-> h, tun |-> e.tun]}
            /\ pending_packets' = Append(pending_packets, e.packet)
            /\ droppedSyns' = IF success THEN droppedSyns
                              ELSE droppedSyns \cup {e.packet.id}
    ELSE UNCHANGED <<pending_syns, sockets, active_tunnels, ingress_streams,
                     pending_packets, droppedSyns>>

\* handle_handshake_feedback that goes on although socket.listen failed
handle_handshake_feedback_NoListenCheck(target, success) ==
    IF target \in DOMAIN pending_syns
    THEN LET e == pending_syns[target]
             h == NewHandle(sockets)
         IN /\ pending_syns' = Without(pending_syns, target)
            /\ IF success
               THEN /\ sockets' = (h :> NewSocket(target)) @@ sockets
                    /\ active_tunnels' = (h :> e.tun) @@ active_tunnels
                    /\ ingress_streams' = ingress_streams \cup {[h |-> h, tun |-> e.tun]}
                    /\ pending_packets' = Append(pending_packets, e.packet)
                    /\ UNCHANGED droppedSyns
               ELSE /\ droppedSyns' = droppedSyns \cup {e.packet.id}
                    /\ UNCHANGED <<sockets, active_tunnels, ingress_streams,
                                   pending_packets>>
    ELSE UNCHANGED <<pending_syns, sockets, active_tunnels, ingress_streams,
                     pending_packets, droppedSyns>>

handle_handshake_feedback(target, success) ==
    IF target \in DOMAIN pending_syns
    THEN LET e == pending_syns[target]
             h == NewHandle(sockets)
         IN /\ pending_syns' = Without(pending_syns, target)
            /\ IF success /\ target.port # 0
               THEN /\ sockets' = (h :> NewSocket(target)) @@ sockets
                    /\ active_tunnels' = (h :> e.tun) @@ active_tunnels
                    /\ ingress_streams' = ingress_streams \cup {[h |-> h, tun |-> e.tun]}
                    /\ pending_packets' = Append(pending_packets, e.packet)
                    /\ UNCHANGED droppedSyns
               ELSE /\ droppedSyns' = droppedSyns \cup {e.packet.id}
                    /\ UNCHANGED <<sockets, active_tunnels, ingress_streams,
                                   pending_packets>>
    ELSE UNCHANGED <<pending_syns, sockets, active_tunnels, ingress_streams,
                     pending_packets, droppedSyns>>

\* the routing of one packet that also queues a relayed packet for the stack
HandlePacket_RelayAndQueue(pkt) ==
    LET ty == get_packet_type(pkt)
        event == inspect_packet(pkt)
    IN IF ty = Tcp /\ event.tag = "some"
       THEN /\ handle_trap(event, pkt)
            /\ UNCHANGED relay_q
       ELSE /\ relay_q' = IF ty = Other /\ blind_relay_tx /\ Len(relay_q) < RelayCap
                          THEN Append(relay_q, pkt) ELSE relay_q
            /\ pending_packets' = Append(pending_packets, pkt)
            /\ UNCHANGED <<sockets, req_q, active_tunnels, ingress_streams,
                           pending_syns, tasks, egress_ch, nTun, reqInfo, ip_addrs,
                           trapsNow>>

(***************************************************************************)
(* The event loop (PrismStack::run).                                       *)
(***************************************************************************)
\* the body of the while loop of Event A for one packet
\* (no packet of TunPackets makes clamp_mss_raw loop, so inspect_packet returns)
HandlePacket(pkt) ==
    LET ty == get_packet_type(pkt)
        event == inspect_packet(pkt)
    IN IF ty = Tcp /\ event.tag = "some"
       THEN /\ handle_trap(event, pkt)
            /\ UNCHANGED relay_q
       ELSE IF ty = Other /\ blind_relay_tx
       THEN /\ relay_q' = IF Len(relay_q) < RelayCap THEN Append(relay_q, pkt)
                          ELSE relay_q
            /\ UNCHANGED <<pending_packets, sockets, req_q, active_tunnels,
                           ingress_streams, pending_syns, tasks, egress_ch, nTun,
                           reqInfo, ip_addrs, trapsNow>>
       ELSE /\ pending_packets' = Append(pending_packets, pkt)
            /\ UNCHANGED <<relay_q, sockets, req_q, active_tunnels, ingress_streams,
                           pending_syns, tasks, egress_ch, nTun, reqInfo, ip_addrs,
                           trapsNow>>

\* the batch loop without its break at BATCH_SIZE
NextPc_NoLimit(c) == "batch"

NextPc(c) == IF c >= BatchLimit THEN "poll" ELSE "batch"

\* Event A: rx_queue.recv() returned a packet
EventA_Recv ==
    /\ pc = "select"
    /\ rx_queue # <<>>
    /\ rx_queue' = Tail(rx_queue)
    /\ HandlePacket(Head(rx_queue))
    /\ count' = 1
    /\ pc' = NextPc(1)
    /\ UNCHANGED <<fixedVars, tx_queue, feedback_q, nPkts,
                   okTunnels, droppedSyns, emittedNow>>

\* Event A: try_recv() returned the next packet of the batch
EventA_Next ==
    /\ pc = "batch"
    /\ rx_queue # <<>>
    /\ rx_queue' = Tail(rx_queue)
    /\ HandlePacket(Head(rx_queue))
    /\ count' = count + 1
    /\ pc' = NextPc(count + 1)
    /\ UNCHANGED <<fixedVars, tx_queue, feedback_q, nPkts,
                   okTunnels, droppedSyns, emittedNow>>

\* Event A: try_recv() found the channel empty
EventA_Done ==
    /\ pc = "batch"
    /\ rx_queue = <<>>
    /\ pc' = "poll"
    /\ count' = 0
    /\ UNCHANGED <<fixedVars, rx_queue, pending_packets,
                   tx_queue, relay_q, req_q, sockets, active_tunnels, ingress_streams,
                   pending_syns, feedback_q, tasks, egress_ch, ip_addrs, nPkts, nTun,
                   reqInfo, okTunnels, droppedSyns, emittedNow, trapsNow>>

\* Event C: feedback from a wait task
EventC ==
    /\ pc = "select"
    /\ feedback_q # <<>>
    /\ feedback_q' = Tail(feedback_q)
    /\ handle_handshake_feedback(Head(feedback_q).target, Head(feedback_q).success)
    /\ pc' = "poll"
    /\ UNCHANGED <<fixedVars, rx_queue, tx_queue, relay_q,
                   req_q, tasks, egress_ch, ip_addrs, count, nPkts, nTun, reqInfo,
                   okTunnels, emittedNow, trapsNow>>

\* Event D: the library's timer; a socket past Listen has one running
EventD ==
    /\ pc = "select"
    /\ \E h \in DOMAIN sockets : sockets[h].state \notin {"Listen", "Closed"}
    /\ pc' = "poll"
    /\ UNCHANGED <<fixedVars, rx_queue, pending_packets,
                   tx_queue, relay_q, req_q, sockets, active_tunnels, ingress_streams,
                   pending_syns, feedback_q, tasks, egress_ch, ip_addrs, count, nPkts,
                   nTun, reqInfo, okTunnels, droppedSyns, emittedNow, trapsNow>>

\* step 3: iface.poll
Poll ==
    /\ pc = "poll"
    /\ \E r \in {PollAll(sockets, ip_addrs, pending_packets)} :
          /\ sockets' = r.socks
          /\ tx_queue' = TxConsume(tx_queue, r.out)
          /\ emittedNow' = Range(r.out)
    /\ pending_packets' = <<>>
    /\ pc' = "pump"
    /\ count' = 0
    /\ UNCHANGED <<fixedVars, rx_queue, relay_q, req_q,
                   active_tunnels, ingress_streams, pending_syns, feedback_q, tasks,
                   egress_ch, ip_addrs, nPkts, nTun, reqInfo, okTunnels, droppedSyns,
                   trapsNow>>

\* the egress pump that never schedules a socket for removal
PumpSocket_NoReap(s, ch, open) ==
    IF s.rx = <<>> \/ s.state = "Closed" \/ s.state = "TimeWait"
    THEN [sock |-> s, ch |-> ch, remove |-> FALSE]
    ELSE [sock |-> [s EXCEPT !.rx = <<>>],
          ch |-> IF open /\ Len(ch) < EgressCap THEN Append(ch, s.rx) ELSE ch,
          remove |-> FALSE]

\* the egress pump that sends the readable bytes and leaves them in the buffer
PumpSocket_KeepRx(s, ch, open) ==
    IF s.state = "Closed" \/ s.state = "TimeWait"
    THEN [sock |-> s, ch |-> ch, remove |-> TRUE]
    ELSE IF s.rx = <<>> THEN [sock |-> s, ch |-> ch, remove |-> FALSE]
    ELSE [sock |-> s,
          ch |-> IF open /\ Len(ch) < EgressCap THEN Append(ch, s.rx) ELSE ch,
          remove |-> FALSE]

\* the egress pump on one socket and the channel of its tunnel: socket.recv takes the
\* readable bytes out of the receive buffer, then try_send offers them to the channel
\* (open: the receiving end of the channel has not been dropped)
PumpSocket(s, ch, open) ==
    IF s.state = "Closed" \/ s.state = "TimeWait"
    THEN [sock |-> s, ch |-> ch, remove |-> TRUE]
    ELSE IF s.rx = <<>> THEN [sock |-> s, ch |-> ch, remove |-> FALSE]
    ELSE [sock |-> [s EXCEPT !.rx = <<>>],
          ch |-> IF open /\ Len(ch) < EgressCap THEN Append(ch, s.rx) ELSE ch,
          remove |-> FALSE]

\* steps 4 and 5: the egress pump over active_tunnels, then the reap
Pump ==
    /\ pc = "pump"
    /\ IF \E h \in DOMAIN active_tunnels : h \notin DOMAIN sockets
       THEN \* sockets.get_mut panics
            /\ pc' = "panic"
            /\ UNCHANGED <<sockets, active_tunnels, egress_ch>>
       ELSE LET res == [h \in DOMAIN active_tunnels |->
                           PumpSocket(sockets[h], egress_ch[active_tunnels[h]],
                                      active_tunnels[h] \notin closed.tunnels)]
                gone == {h \in DOMAIN active_tunnels : res[h].remove}
            IN /\ sockets' = [h \in (DOMAIN sockets) \ gone |->
                                IF h \in DOMAIN active_tunnels THEN res[h].sock
                                ELSE sockets[h]]
               /\ active_tunnels' = [h \in (DOMAIN active_tunnels) \ gone |->
                                        active_tunnels[h]]
               /\ egress_ch' = [k \in DOMAIN egress_ch |->
                                  IF \E h \in DOMAIN active_tunnels : active_tunnels[h] = k
                                  THEN res[CHOOSE h \in DOMAIN active_tunnels :
                                             active_tunnels[h] = k].ch
                                  ELSE egress_ch[k]]
               /\ pc' = "select"
    /\ emittedNow' = {}
    /\ trapsNow' = {}
    /\ UNCHANGED <<fixedVars, rx_queue, pending_packets,
                   tx_queue, relay_q, req_q, ingress_streams, pending_syns, feedback_q,
                   tasks, ip_addrs, count, nPkts, nTun, reqInfo, okTunnels, droppedSyns>>


(***************************************************************************)
(* The tasks around the event loop.                                        *)
(***************************************************************************)
Syn(c, t) == [BasePkt EXCEPT !.syn = TRUE, !.src = c, !.dst = t]
Ack(c, t) == [BasePkt EXCEPT !.ack = TRUE, !.src = c, !.dst = t, !.doff = 5, !.tail = <<>>]
Rst(c, t) == [Ack(c, t) EXCEPT !.rst = TRUE]
Udp(c, t) == [BasePkt EXCEPT !.proto = "udp", !.src = c, !.dst = t, !.segHdr = FALSE,
                             !.doff = 0, !.tail = <<>>]
Garbage == [BasePkt EXCEPT !.ver = 15, !.ipOk = FALSE, !.segHdr = FALSE, !.doff = 0,
                           !.tail = <<>>]

\* the TCP traffic the TUN reader may read; a data segment is Ack with a payload unit
TunPackets ==
    {Syn("c1", T80), Syn("c2", T80), Syn("c1", T0), Ack("c1", T80), Rst("c1", T80)}

\* the TUN reader: os_tx.send(packet), for at most max packets in all
TunRead(max) ==
    /\ "tun" \notin closed.ends
    /\ nPkts < max
    /\ \E p \in TunPackets, d \in BOOLEAN :
          /\ d => (p = Ack("c1", T80))
          /\ rx_queue' = Append(rx_queue,
                 [p EXCEPT !.id = nPkts + 1, !.data = IF d THEN nPkts + 1 ELSE 0])
    /\ nPkts' = nPkts + 1
    /\ UNCHANGED <<fixedVars, pending_packets, tx_queue, relay_q, req_q, sockets,
                   active_tunnels, ingress_streams, pending_syns, feedback_q, tasks,
                   egress_ch, ip_addrs, pc, count, nTun, reqInfo, okTunnels,
                   droppedSyns, emittedNow, trapsNow>>

TunReader == TunRead(MaxPkts)

\* the TUN writer: tun_rx.recv()
TunWriter ==
    /\ tx_queue # <<>>
    /\ tx_queue' = Tail(tx_queue)
    /\ UNCHANGED <<fixedVars, rx_queue, pending_packets, relay_q, req_q, sockets,
                   active_tunnels, ingress_streams, pending_syns, feedback_q, tasks,
                   egress_ch, ip_addrs, pc, count, nPkts, nTun, reqInfo, okTunnels,
                   droppedSyns, emittedNow, trapsNow>>

\* the relayer takes a tunnel request and, when it carries a response channel,
\* answers it
Relayer ==
    /\ "req" \notin closed.ends
    /\ req_q # <<>>
    /\ req_q' = Tail(req_q)
    /\ LET r == Head(req_q)
       IN IF r.resp
          THEN \E b \in BOOLEAN :
                  /\ tasks' = [tasks EXCEPT ![r.tun].val = IF b THEN "true" ELSE "false"]
                  /\ okTunnels' = IF b THEN okTunnels \cup {r.tun} ELSE okTunnels
          ELSE UNCHANGED <<tasks, okTunnels>>
    /\ UNCHANGED <<fixedVars, rx_queue, pending_packets, tx_queue, relay_q, sockets,
                   active_tunnels, ingress_streams, pending_syns, feedback_q, egress_ch,
                   ip_addrs, pc, count, nPkts, nTun, reqInfo, droppedSyns, emittedNow,
                   trapsNow>>

\* a wait task that ends without a feedback when the confirmation sender is dropped
WaitTask_SilentOnDrop ==
    /\ \E k \in DOMAIN tasks :
          /\ tasks[k].val # "wait"
          /\ feedback_q' = IF tasks[k].val = "dropped" THEN feedback_q
                           ELSE Append(feedback_q,
                                    [target |-> tasks[k].target,
                                     success |-> tasks[k].val = "true"])
          /\ tasks' = Without(tasks, k)
    /\ UNCHANGED <<fixedVars, rx_queue, pending_packets, tx_queue, relay_q, req_q,
                   sockets, active_tunnels, ingress_streams, pending_syns, egress_ch,
                   ip_addrs, pc, count, nPkts, nTun, reqInfo, okTunnels, droppedSyns,
                   emittedNow, trapsNow>>

\* a wait task: resp_rx.await, then feedback_tx.send((target, success))
WaitTask ==
    /\ \E k \in DOMAIN tasks :
          /\ tasks[k].val # "wait"
          /\ feedback_q' = Append(feedback_q,
                 [target |-> tasks[k].target, success |-> tasks[k].val = "true"])
          /\ tasks' = Without(tasks, k)
    /\ UNCHANGED <<fixedVars, rx_queue, pending_packets, tx_queue, relay_q, req_q,
                   sockets, active_tunnels, ingress_streams, pending_syns, egress_ch,
                   ip_addrs, pc, count, nPkts, nTun, reqInfo, okTunnels, droppedSyns,
                   emittedNow, trapsNow>>

Empty == <<>>

\* PrismStack::new, then the setters the embedding program calls
InitStack ==
    /\ rx_queue = <<>>
    /\ pending_packets = <<>>
    /\ tx_queue = <<>>
    /\ relay_q = <<>>
    /\ req_q = <<>>
    /\ sockets = Empty
    /\ active_tunnels = Empty
    /\ ingress_streams = {}
    /\ pending_syns = Empty
    /\ feedback_q = <<>>
    /\ tasks = Empty
    /\ egress_ch = Empty
    /\ ip_addrs = <<"gw4", "gw6">>
    /\ pc = "select"
    /\ count = 0
    /\ nPkts = 0
    /\ nTun = 0
    /\ reqInfo = Empty
    /\ okTunnels = {}
    /\ droppedSyns = {}
    /\ emittedNow = {}
    /\ trapsNow = {}
    /\ closed = [ends |-> {}, tunnels |-> {}]
    /\ ingress_ch = Empty
    /\ tx_pool = <<>>
    /\ txRes = [len |-> 0, bytes |-> <<>>, want |-> 0, ret |-> 0]

\* the offload codec is not called
InitOffloadIdle ==
    /\ offIn = <<>>
    /\ offOut = <<>>
    /\ opc = "idle"

InitTrapIdle ==
    /\ inPkt = BasePkt
    /\ outEv = NoTrap
    /\ outTy = Unknown
    /\ outAgain = NoTrap
    /\ tpc = "idle"

Init ==
    /\ mode \in {"Fast", "Consistent"}
    /\ egress_mtu = DEFAULT_MSS_CLAMP
    /\ tunnel_req_tx \in BOOLEAN
    /\ blind_relay_tx = TRUE
    /\ InitStack
    /\ InitTrapIdle
    /\ InitOffloadIdle

Next ==
    \/ TunReader
    \/ TunWriter
    \/ Relayer
    \/ WaitTask
    \/ EventA_Recv
    \/ EventA_Next
    \/ EventA_Done
    \/ EventC
    \/ EventD
    \/ Poll
    \/ Pump

Spec == Init /\ [][Next]_vars


\* Fast mode alone: no wait task is spawned and no feedback is sent
InitFast ==
    /\ mode = "Fast"
    /\ egress_mtu = DEFAULT_MSS_CLAMP
    /\ tunnel_req_tx \in BOOLEAN
    /\ blind_relay_tx = TRUE
    /\ InitStack
    /\ InitTrapIdle
    /\ InitOffloadIdle

NextFast ==
    \/ TunReader
    \/ TunWriter
    \/ Relayer
    \/ EventA_Recv
    \/ EventA_Next
    \/ EventA_Done
    \/ EventD
    \/ Poll
    \/ Pump

SpecFast == InitFast /\ [][NextFast]_vars

\* Consistent mode alone, with the request sender set
InitConsistent ==
    /\ mode = "Consistent"
    /\ egress_mtu = DEFAULT_MSS_CLAMP
    /\ tunnel_req_tx = TRUE
    /\ blind_relay_tx = TRUE
    /\ InitStack
    /\ InitTrapIdle
    /\ InitOffloadIdle

SpecConsistent == InitConsistent /\ [][Next]_vars

(***************************************************************************)
(* Channel ends being dropped, and the event loop under fair scheduling.   *)
(***************************************************************************)
\* the TUN reader task ends and drops os_tx
CloseTun ==
    /\ "tun" \notin closed.ends
    /\ closed' = [closed EXCEPT !.ends = @ \cup {"tun"}]
    /\ UNCHANGED <<configVars, ingress_ch, rx_queue, pending_packets, tx_queue, relay_q, req_q,
                   sockets, active_tunnels, ingress_streams, pending_syns, feedback_q,
                   tasks, egress_ch, ip_addrs, pc, count, nPkts, nTun, reqInfo,
                   okTunnels, droppedSyns, emittedNow, trapsNow>>

\* the tunnels of the requests in q
RECURSIVE TunsOf(_)
TunsOf(q) == IF q = <<>> THEN {} ELSE {Head(q).tun} \cup TunsOf(Tail(q))

\* the relayer task ends and drops req_rx, and with it the requests still queued:
\* their channel ends and their confirmation senders
CloseReq ==
    /\ "req" \notin closed.ends
    /\ closed' = [ends |-> closed.ends \cup {"req"},
                  tunnels |-> closed.tunnels \cup TunsOf(req_q)]
    /\ req_q' = <<>>
    /\ tasks' = [k \in DOMAIN tasks |->
                    IF k \in TunsOf(req_q) THEN [tasks[k] EXCEPT !.val = "dropped"]
                    ELSE tasks[k]]
    /\ UNCHANGED <<configVars, ingress_ch, rx_queue, pending_packets, tx_queue, relay_q, sockets,
                   active_tunnels, ingress_streams, pending_syns, feedback_q, egress_ch,
                   ip_addrs, pc, count, nPkts, nTun, reqInfo, okTunnels, droppedSyns,
                   emittedNow, trapsNow>>

\* the relayer takes a request and drops it: its channel ends and, unsent, its
\* confirmation sender
RelayerDrop ==
    /\ "req" \notin closed.ends
    /\ req_q # <<>>
    /\ req_q' = Tail(req_q)
    /\ closed' = [closed EXCEPT !.tunnels = @ \cup {Head(req_q).tun}]
    /\ tasks' = IF Head(req_q).resp
                THEN [tasks EXCEPT ![Head(req_q).tun].val = "dropped"]
                ELSE tasks
    /\ UNCHANGED <<configVars, ingress_ch, rx_queue, pending_packets, tx_queue, relay_q, sockets,
                   active_tunnels, ingress_streams, pending_syns, feedback_q, egress_ch,
                   ip_addrs, pc, count, nPkts, nTun, reqInfo, okTunnels, droppedSyns,
                   emittedNow, trapsNow>>

\* the relayer drops its ends of the channels of a tunnel whose request it took
DropTunnel ==
    /\ \E k \in 1..nTun :
          /\ k \notin closed.tunnels
          /\ k \notin TunsOf(req_q)
          /\ closed' = [closed EXCEPT !.tunnels = @ \cup {k}]
    /\ UNCHANGED <<configVars, ingress_ch, rx_queue, pending_packets, tx_queue, relay_q, req_q,
                   sockets, active_tunnels, ingress_streams, pending_syns, feedback_q,
                   tasks, egress_ch, ip_addrs, pc, count, nPkts, nTun, reqInfo,
                   okTunnels, droppedSyns, emittedNow, trapsNow>>

\* what waits in the ingress channel of tunnel k
IngressOf(k) == IF k \in DOMAIN ingress_ch THEN ingress_ch[k] ELSE <<>>

\* Event B polled on a stream whose sender was dropped: the stream ends and the
\* fan-in forgets it; no item is yielded, the select goes on waiting
StreamEnd ==
    /\ pc = "select"
    /\ \E st \in ingress_streams :
          /\ st.tun \in closed.tunnels
          /\ IngressOf(st.tun) = <<>>
          /\ ingress_streams' = ingress_streams \ {st}
    /\ UNCHANGED <<fixedVars, rx_queue, pending_packets, tx_queue, relay_q, req_q,
                   sockets, active_tunnels, pending_syns, feedback_q, tasks, egress_ch,
                   ip_addrs, pc, count, nPkts, nTun, reqInfo, okTunnels, droppedSyns,
                   emittedNow, trapsNow>>

\* Event A: rx_queue.recv() returned None: break, run returns Ok
EventA_Closed ==
    /\ pc = "select"
    /\ rx_queue = <<>>
    /\ "tun" \in closed.ends
    /\ pc' = "done"
    /\ UNCHANGED <<fixedVars, rx_queue, pending_packets, tx_queue, relay_q, req_q,
                   sockets, active_tunnels, ingress_streams, pending_syns, feedback_q,
                   tasks, egress_ch, ip_addrs, count, nPkts, nTun, reqInfo, okTunnels,
                   droppedSyns, emittedNow, trapsNow>>

\* the applications open connections and send nothing else
SynPackets == {Syn("c1", T80), Syn("c2", T80), Syn("c1", T0)}

TunReaderSyns ==
    /\ "tun" \notin closed.ends
    /\ nPkts < MaxSyns
    /\ \E p \in SynPackets :
          rx_queue' = Append(rx_queue, [p EXCEPT !.id = nPkts + 1])
    /\ nPkts' = nPkts + 1
    /\ UNCHANGED <<fixedVars, pending_packets, tx_queue, relay_q, req_q, sockets,
                   active_tunnels, ingress_streams, pending_syns, feedback_q, tasks,
                   egress_ch, ip_addrs, pc, count, nTun, reqInfo, okTunnels,
                   droppedSyns, emittedNow, trapsNow>>

\* tokio runs every task that can run, and select! picks at random among its
\* branches that are ready: a branch that is ready again and again is taken
LoopFairness ==
    /\ SF_vars(EventA_Recv)
    /\ SF_vars(EventA_Closed)
    /\ SF_vars(EventC)
    /\ WF_vars(EventA_Next)
    /\ WF_vars(EventA_Done)
    /\ WF_vars(Poll)
    /\ WF_vars(Pump)
    /\ WF_vars(StreamEnd)
    /\ WF_vars(WaitTask)

NextClose ==
    \/ TunReaderSyns
    \/ TunWriter
    \/ Relayer
    \/ CloseTun
    \/ CloseReq
    \/ DropTunnel
    \/ StreamEnd
    \/ EventA_Recv
    \/ EventA_Next
    \/ EventA_Done
    \/ EventA_Closed
    \/ EventD
    \/ Poll
    \/ Pump

\* Fast mode with channel ends being dropped
SpecClose == InitFast /\ [][NextClose]_vars /\ LoopFairness


(***************************************************************************)
(* Non-TCP traffic and the blind relay (examples/check_tun.rs).            *)
(***************************************************************************)
Udp6(c, t) == [Udp(c, t) EXCEPT !.ver = 6, !.ext = <<[kind |-> "HopByHop", fits |-> TRUE]>>]

\* what the TUN reader may read when the applications also speak UDP
MixedPackets ==
    {Udp("c1", T80), Udp("c2", T80), Udp6("c1", T80), Garbage, Syn("c1", T80),
     Ack("c1", T80)}

TunReaderMixed ==
    /\ "tun" \notin closed.ends
    /\ nPkts < MaxPkts
    /\ \E p \in MixedPackets :
          rx_queue' = Append(rx_queue, [p EXCEPT !.id = nPkts + 1])
    /\ nPkts' = nPkts + 1
    /\ UNCHANGED <<fixedVars, pending_packets, tx_queue, relay_q, req_q, sockets,
                   active_tunnels, ingress_streams, pending_syns, feedback_q, tasks,
                   egress_ch, ip_addrs, pc, count, nTun, reqInfo, okTunnels,
                   droppedSyns, emittedNow, trapsNow>>

\* the blind relay consumer: blind_rx.recv(), swap the addresses, tun_tx.send(response);
\* the step is the one in which the awaited send completes
BlindRelay ==
    /\ blind_relay_tx
    /\ relay_q # <<>>
    /\ Len(tx_queue) < TxCap
    /\ relay_q' = Tail(relay_q)
    /\ tx_queue' = Append(tx_queue, Reply("echo", Head(relay_q)))
    /\ UNCHANGED <<fixedVars, rx_queue, pending_packets, req_q, sockets,
                   active_tunnels, ingress_streams, pending_syns, feedback_q, tasks,
                   egress_ch, ip_addrs, pc, count, nPkts, nTun, reqInfo, okTunnels,
                   droppedSyns, emittedNow, trapsNow>>

\* Fast mode with the request sender set; set_blind_relay_sender called or not
InitRelay ==
    /\ mode = "Fast"
    /\ egress_mtu = DEFAULT_MSS_CLAMP
    /\ tunnel_req_tx = TRUE
    /\ blind_relay_tx \in BOOLEAN
    /\ InitStack
    /\ InitTrapIdle
    /\ InitOffloadIdle

NextRelay ==
    \/ TunReaderMixed
    \/ TunWriter
    \/ Relayer
    \/ BlindRelay
    \/ EventA_Recv
    \/ EventA_Next
    \/ EventA_Done
    \/ EventD
    \/ Poll
    \/ Pump

SpecRelay == InitRelay /\ [][NextRelay]_vars


(***************************************************************************)
(* Consistent mode with a relayer that answers, or drops, every request.   *)
(***************************************************************************)
NextFeedback ==
    \/ TunReaderSyns
    \/ TunWriter
    \/ Relayer
    \/ RelayerDrop
    \/ WaitTask
    \/ EventA_Recv
    \/ EventA_Next
    \/ EventA_Done
    \/ EventC
    \/ EventD
    \/ Poll
    \/ Pump

SpecFeedback == InitConsistent /\ [][NextFeedback]_vars /\ LoopFairness

(***************************************************************************)
(* The trap alone: inspect_packet applied to one packet drawn from a       *)
(* bounded set, under each configured egress MTU.                          *)
(***************************************************************************)
\* TCP options as they appear on the wire, and some malformed ones
OptItems ==
    {<<0>>, <<1>>, <<2, 4, 5, 180>>, <<2, 4, 5, 0>>, <<2, 4, 5, 1>>, <<2, 4, 2, 24>>,
     <<2, 4, 3, 232>>, <<2, 4, 4, 176>>, <<2, 3, 5>>, <<3, 3, 7>>, <<4, 2>>, <<3, 0>>,
     <<3, 1>>, <<8, 10>>}

RECURSIVE OptAreas(_)
OptAreas(n) ==
    IF n = 0 THEN {<<>>}
    ELSE LET prev == OptAreas(n - 1)
         IN prev \cup {a \o o : a \in prev, o \in OptItems}

\* the option area is a whole number of 32-bit words: pad with NOP
PadWords(a) ==
    CASE Len(a) % 4 = 0 -> a
      [] Len(a) % 4 = 1 -> a \o <<1, 1, 1>>
      [] Len(a) % 4 = 2 -> a \o <<1, 1>>
      [] Len(a) % 4 = 3 -> a \o <<1>>

HeaderCases ==
    {[BasePkt EXCEPT !.ver = v, !.ipOk = i, !.proto = pr, !.segHdr = sh, !.doff = d,
                     !.syn = fl[1], !.ack = fl[2], !.rst = fl[3], !.ext = x] :
        v \in {4, 6, 15}, i \in BOOLEAN, pr \in {"tcp", "udp"}, sh \in BOOLEAN,
        d \in 4..7, fl \in BOOLEAN \X BOOLEAN \X BOOLEAN,
        x \in {<<>>, <<[kind |-> "HopByHop", fits |-> TRUE]>>,
               <<[kind |-> "HopByHop", fits |-> FALSE]>>}}

OptionCases ==
    {[BasePkt EXCEPT !.ver = v, !.syn = TRUE, !.tcpCsum = c, !.tail = PadWords(a),
                     !.doff = 5 + (Len(PadWords(a)) \div 4)] :
        v \in {4, 6}, c \in BOOLEAN, a \in OptAreas(MaxOpts)}

\* n chained HopByHop headers; with cut, the last one does not fit in the buffer
Chain(n, cut) ==
    [i \in 1..n |-> [kind |-> "HopByHop", fits |-> ~(cut /\ i = n)]]

ChainCases ==
    {[BasePkt EXCEPT !.ver = 6, !.proto = pr, !.syn = TRUE, !.ext = Chain(n, cut)] :
        n \in 0..MaxExt, pr \in {"tcp", "udp"}, cut \in BOOLEAN}

\* the empty buffer, and packets of the other L4 protocols
EmptyBuffer ==
    [BasePkt EXCEPT !.empty = TRUE, !.ipOk = FALSE, !.segHdr = FALSE, !.doff = 0,
                    !.tail = <<>>]

ProtoCases ==
    {[BasePkt EXCEPT !.ver = v, !.ipOk = i, !.proto = pr] :
        v \in {4, 6, 15}, i \in BOOLEAN, pr \in {"tcp", "udp", "icmp", "gre"}}

TrapInputs == HeaderCases \cup OptionCases \cup ChainCases \cup ProtoCases \cup {EmptyBuffer}

\* the egress MTU the embedding program passes (examples/check_tun.rs --egress-mtu)
EgressMtus == {1000, DEFAULT_MSS_CLAMP, 1400}

InitTrap ==
    /\ mode = "Fast"
    /\ egress_mtu \in EgressMtus
    /\ tunnel_req_tx = TRUE
    /\ blind_relay_tx = TRUE
    /\ InitStack
    /\ InitOffloadIdle
    /\ inPkt \in TrapInputs
    /\ outEv = NoTrap
    /\ outTy = Unknown
    /\ outAgain = NoTrap
    /\ tpc = "in"

TrapInspect ==
    /\ tpc = "in"
    /\ outEv' = inspect_packet(inPkt)
    /\ outTy' = get_packet_type(inPkt)
    /\ tpc' = "out"
    /\ UNCHANGED <<stackVars, offVars, egress_mtu, inPkt, outAgain>>

\* the stored packet of the trap event is inspected once more
TrapReinspect ==
    /\ tpc = "out"
    /\ outEv.tag = "some"
    /\ outAgain' = inspect_packet(outEv.packet)
    /\ tpc' = "again"
    /\ UNCHANGED <<stackVars, offVars, egress_mtu, inPkt, outEv, outTy>>

NextTrap ==
    \/ TrapInspect
    \/ TrapReinspect

SpecTrap == InitTrap /\ [][NextTrap]_vars


(***************************************************************************)
(* The offload codec (offload.rs).  Buffers are sequences of bytes; the    *)
(* byte at index i of the source is element i + 1 here.                    *)
(***************************************************************************)
VIRTIO_NET_HDR_SIZE == 10
VIRTIO_NET_HDR_F_NEEDS_CSUM == 1
VIRTIO_NET_HDR_GSO_NONE == 0
ProtoTcp == 6
ProtoUdp == 17

\* the two bytes of a u16 with the high byte first
to_be_bytes(x) == <<(x \div 256) % 256, x % 256>>

\* u16::to_le_bytes and u16::from_le_bytes
to_le_bytes(x) == <<x % 256, (x \div 256) % 256>>
from_le_bytes(lo, hi) == lo + 256 * hi

Zeros(n) == [i \in 1..n |-> 0]

NoHdr == [tag |-> "none"]
Panic == [tag |-> "panic"]

VirtioNetHdr(f, g, hl, gs, cs, co) ==
    [tag |-> "some", flags |-> f, gso_type |-> g, hdr_len |-> hl, gso_size |-> gs,
     csum_start |-> cs, csum_offset |-> co]

\* VirtioNetHdr::parse
parse(buf) ==
    IF Len(buf) < VIRTIO_NET_HDR_SIZE THEN NoHdr
    ELSE VirtioNetHdr(buf[1], buf[2], from_le_bytes(buf[3], buf[4]),
                      from_le_bytes(buf[5], buf[6]), from_le_bytes(buf[7], buf[8]),
                      from_le_bytes(buf[9], buf[10]))

\* VirtioNetHdr::write_to: the buffer after the call
write_to(h, buf) ==
    IF Len(buf) < VIRTIO_NET_HDR_SIZE THEN Panic
    ELSE [tag |-> "ok",
          buf |-> <<h.flags, h.gso_type>> \o to_le_bytes(h.hdr_len)
                    \o to_le_bytes(h.gso_size) \o to_le_bytes(h.csum_start)
                    \o to_le_bytes(h.csum_offset)
                    \o SubSeq(buf, VIRTIO_NET_HDR_SIZE + 1, Len(buf))]

\* VirtioNetHdr::none
none == VirtioNetHdr(0, 0, 0, 0, 0, 0)

\* strip_virtio_hdr: the slice buf[10..], a panic when the buffer is shorter
strip_virtio_hdr(buf) ==
    IF Len(buf) < VIRTIO_NET_HDR_SIZE THEN Panic
    ELSE [tag |-> "ok", buf |-> SubSeq(buf, VIRTIO_NET_HDR_SIZE + 1, Len(buf))]

prepend_virtio_hdr_none(packet) ==
    [tag |-> "ok", buf |-> Zeros(VIRTIO_NET_HDR_SIZE) \o packet]

\* prepend_virtio_hdr_csum with the checksum offsets of TCP and UDP exchanged
prepend_virtio_hdr_csum_Swapped(packet) ==
    IF packet = <<>> THEN prepend_virtio_hdr_none(packet)
    ELSE LET version == packet[1] \div 16
         IN IF version \notin {4, 6} THEN prepend_virtio_hdr_none(packet)
            ELSE IF Len(packet) < (IF version = 4 THEN 10 ELSE 7) THEN Panic
            ELSE LET ip_hdr_len == IF version = 4 THEN (packet[1] % 16) * 4 ELSE 40
                     protocol == IF version = 4 THEN packet[10] ELSE packet[7]
                 IN IF protocol \notin {ProtoTcp, ProtoUdp}
                    THEN prepend_virtio_hdr_none(packet)
                    ELSE LET hdr == VirtioNetHdr(VIRTIO_NET_HDR_F_NEEDS_CSUM,
                                        VIRTIO_NET_HDR_GSO_NONE, 0, 0, ip_hdr_len,
                                        IF protocol = ProtoTcp THEN 6 ELSE 16)
                             w == write_to(hdr, Zeros(VIRTIO_NET_HDR_SIZE))
                         IN [tag |-> "ok", buf |-> w.buf \o packet]

\* prepend_virtio_hdr_csum; packet[9] and packet[6] are indexed without a length
\* check: out of bounds is a panic
prepend_virtio_hdr_csum(packet) ==
    IF packet = <<>> THEN prepend_virtio_hdr_none(packet)
    ELSE LET version == packet[1] \div 16
         IN IF version \notin {4, 6} THEN prepend_virtio_hdr_none(packet)
            ELSE IF Len(packet) < (IF version = 4 THEN 10 ELSE 7) THEN Panic
            ELSE LET ip_hdr_len == IF version = 4 THEN (packet[1] % 16) * 4 ELSE 40
                     protocol == IF version = 4 THEN packet[10] ELSE packet[7]
                 IN IF protocol \notin {ProtoTcp, ProtoUdp}
                    THEN prepend_virtio_hdr_none(packet)
                    ELSE LET hdr == VirtioNetHdr(VIRTIO_NET_HDR_F_NEEDS_CSUM,
                                        VIRTIO_NET_HDR_GSO_NONE, 0, 0, ip_hdr_len,
                                        IF protocol = ProtoTcp THEN 16 ELSE 6)
                             w == write_to(hdr, Zeros(VIRTIO_NET_HDR_SIZE))
                         IN [tag |-> "ok", buf |-> w.buf \o packet]

\* strip applied to what a prepend returned
StripOf(r) == IF r.tag = "ok" THEN strip_virtio_hdr(r.buf) ELSE Panic

\* the inputs of the codec check
U16Values == {0, 1, 255, 256, 1460, 65535}

HdrInputs ==
    {VirtioNetHdr(f, g, hl, gs, cs, co) :
        f \in {0, 1}, g \in {0, 1, 4}, hl \in {0, 54, 256},
        gs \in U16Values, cs \in U16Values, co \in {0, 6, 16, 65535}}

\* buffers of bytes 0 and 255 of every length up to MaxHdrBuf
RECURSIVE BufsOfLen(_)
BufsOfLen(n) ==
    IF n = 0 THEN {<<>>}
    ELSE {Append(b, x) : b \in BufsOfLen(n - 1), x \in {0, 255}}

BufInputs == UNION {BufsOfLen(n) : n \in 0..MaxHdrBuf}

\* a buffer of len bytes that starts like an IP packet of version v with header
\* length nibble ihl and protocol (next header) proto, as far as len reaches
IpBytes(v, ihl, proto, len) ==
    [i \in 1..len |->
        IF i = 1 THEN v * 16 + ihl
        ELSE IF (v = 4 /\ i = 10) \/ (v = 6 /\ i = 7) THEN proto
        ELSE i]

PktLens == {0, 1, 6, 7, 9, 10, 20, 24, 40, MaxPktLen}

PktInputs ==
    {IpBytes(v, ihl, proto, len) :
        v \in {4, 6, 15}, ihl \in {0, 5, 6}, proto \in {0, 1, 6, 17, 58},
        len \in PktLens}

OffloadInputs ==
    {[kind |-> "hdr", val |-> h] : h \in HdrInputs}
    \cup {[kind |-> "buf", val |-> b] : b \in BufInputs}
    \cup {[kind |-> "pkt", val |-> p] : p \in PktInputs}

InitOffload ==
    /\ mode = "Fast"
    /\ egress_mtu = DEFAULT_MSS_CLAMP
    /\ tunnel_req_tx = TRUE
    /\ blind_relay_tx = TRUE
    /\ InitStack
    /\ InitTrapIdle
    /\ offIn \in OffloadInputs
    /\ offOut = <<>>
    /\ opc = "in"

\* a header is written to a 10-byte buffer and parsed back
OffWriteParse ==
    /\ opc = "in"
    /\ offIn.kind = "hdr"
    /\ LET w == write_to(offIn.val, Zeros(VIRTIO_NET_HDR_SIZE))
       IN offOut' = [op |-> "write_parse", bytes |-> w.buf, hdr |-> parse(w.buf)]
    /\ opc' = "out"
    /\ UNCHANGED <<stackVars, trapVars, egress_mtu, offIn>>

\* a buffer is parsed and the header written to a fresh 10-byte buffer
OffParseWrite ==
    /\ opc = "in"
    /\ offIn.kind = "buf"
    /\ LET h == parse(offIn.val)
       IN offOut' = [op |-> "parse_write", hdr |-> h,
                     bytes |-> IF h.tag = "some"
                               THEN write_to(h, Zeros(VIRTIO_NET_HDR_SIZE)).buf
                               ELSE <<>>]
    /\ opc' = "out"
    /\ UNCHANGED <<stackVars, trapVars, egress_mtu, offIn>>

\* a packet gets the empty header, which is stripped again
OffPrependNone ==
    /\ opc = "in"
    /\ offIn.kind = "pkt"
    /\ LET r == prepend_virtio_hdr_none(offIn.val)
       IN offOut' = [op |-> "none", framed |-> r, stripped |-> StripOf(r)]
    /\ opc' = "out"
    /\ UNCHANGED <<stackVars, trapVars, egress_mtu, offIn>>

\* a packet gets the checksum-offload header, which is stripped again
OffPrependCsum ==
    /\ opc = "in"
    /\ offIn.kind = "pkt"
    /\ LET r == prepend_virtio_hdr_csum(offIn.val)
       IN offOut' = [op |-> "csum", framed |-> r, stripped |-> StripOf(r)]
    /\ opc' = "out"
    /\ UNCHANGED <<stackVars, trapVars, egress_mtu, offIn>>

NextOffload ==
    \/ OffWriteParse
    \/ OffParseWrite
    \/ OffPrependNone
    \/ OffPrependCsum

SpecOffload == InitOffload /\ [][NextOffload]_vars

(***************************************************************************)
(* Claims.                                                                 *)
(***************************************************************************)
PureSyn(p) == get_packet_type(p) = Tcp /\ inspect_packet(p).tag = "some"

\* C1: every trapped SYN in the PHY pending queue is the trap event's rewritten,
\* MSS-clamped buffer, never the unclamped packet read from the TUN channel.
C1_PendingSynIsClamped ==
    \A i \in 1..Len(pending_packets) :
        LET q == pending_packets[i]
        IN PureSyn(q) => q = inspect_packet(q).packet

\* C2: inspect_packet returns a trap event if and only if the packet is TCP, its TCP
\* header lies inside the packet, and its flags are SYN=1, ACK=0, RST=0.
C2_TrapIffPureSyn ==
    (tpc = "out" /\ outEv.tag # "hang") =>
        (outEv.tag = "some" <=>
            /\ get_packet_type(inPkt) = Tcp
            /\ TcpChecked(inPkt)
            /\ inPkt.syn /\ ~inPkt.ack /\ ~inPkt.rst)

\* The MSS option of an option area, read as the specification reads it: options 0
\* and 1 are one byte, every other option is kind, length, value; the result is the
\* index (from 0) of the first well-formed MSS option of length 4, or -1.
RECURSIVE FindMss(_, _)
FindMss(o, i) ==
    IF i >= Len(o) THEN -1
    ELSE IF o[i + 1] = 0 \/ o[i + 1] = 1 THEN FindMss(o, i + 1)
    ELSE IF i + 1 >= Len(o) THEN -1
    ELSE IF o[i + 2] < 2 \/ i + o[i + 2] > Len(o) THEN -1
    ELSE IF o[i + 1] = 2 THEN (IF o[i + 2] = 4 THEN i ELSE -1)
    ELSE FindMss(o, i + o[i + 2])

OptionsOf(p) == SubSeq(p.tail, 1, p.doff * 4 - TcpHeaderLen)

MssAt(p, i) == Mss(p.tail[i + 3], p.tail[i + 4])

\* C3: for every trap event the MSS option of the stored SYN equals
\* min(original MSS, egress_mtu), so it never exceeds the configured egress_mtu.
C3_StoredMssIsMin ==
    (tpc = "out" /\ outEv.tag = "some") =>
        LET i == FindMss(OptionsOf(inPkt), 0)
        IN i >= 0 =>
            /\ MssAt(outEv.packet, i) = Min(MssAt(inPkt, i), egress_mtu)
            /\ MssAt(outEv.packet, i) <= egress_mtu


\* the step of the event loop that handles a feedback message
FeedbackStep == pc = "select" /\ feedback_q # <<>> /\ feedback_q' = Tail(feedback_q)

\* the ids of the packets in the PHY pending queue
PendingIds == {pending_packets[i].id : i \in 1..Len(pending_packets)}

\* the SYN-ACK that answers the SYN of client src to endpoint dst
SynAckFor(src, dst) == [kind |-> "synack", src |-> dst, dst |-> src]

\* a tunnel request of client src for target t has been confirmed with true
Confirmed(src, t) ==
    \E k \in okTunnels : reqInfo[k].src = src /\ reqInfo[k].target = t

\* C4: in Consistent mode, while a SYN for a target waits for its confirmation no
\* socket listens on the target and the buffered SYN is not in the PHY pending
\* queue, and no SYN-ACK is produced for a connection before a true confirmation
\* of a request for it.
C4_NothingBeforeConfirmation ==
    mode = "Consistent" =>
        /\ \A t \in DOMAIN pending_syns :
              /\ ~\E h \in DOMAIN sockets :
                     sockets[h].local = t /\ sockets[h].state = "Listen"
              /\ pending_syns[t].packet.id \notin PendingIds
        /\ \A e \in emittedNow : e.kind = "synack" => Confirmed(e.dst, e.src)

\* C5: in Consistent mode the channels registered for a socket belong to a tunnel
\* request whose own confirmation was true.
C5_RegisteredTunnelConfirmed ==
    mode = "Consistent" =>
        \A h \in DOMAIN active_tunnels : active_tunnels[h] \in okTunnels

\* C6: in Consistent mode, handling feedback (target, false) leaves no pending entry
\* for the target, creates no socket and no registry entry, and puts nothing in the
\* PHY pending queue; a SYN dropped this way is never in the PHY pending queue.
C6_FalseFeedbackDropsSyn ==
    /\ [][(mode = "Consistent" /\ FeedbackStep /\ ~Head(feedback_q).success) =>
             /\ Head(feedback_q).target \notin DOMAIN pending_syns'
             /\ sockets' = sockets
             /\ active_tunnels' = active_tunnels
             /\ ingress_streams' = ingress_streams
             /\ pending_packets' = pending_packets]_vars
    /\ [](PendingIds \cap droppedSyns = {})

\* a false confirmation has been handled and its SYN dropped: every confirmation so
\* far was false
C6_Witness ==
    /\ mode = "Consistent"
    /\ pc = "poll"
    /\ droppedSyns # {}
    /\ okTunnels = {}
    /\ pending_syns = Empty

\* C7: when the egress pump meets a socket with readable bytes whose tunnel channel
\* is full, the bytes stay in the socket's receive buffer.
C7_FullChannelKeepsBytes ==
    [][(pc = "pump" /\ pc' = "select") =>
          \A h \in DOMAIN active_tunnels :
              (/\ sockets[h].state \notin {"Closed", "TimeWait"}
               /\ sockets[h].rx # <<>>
               /\ Len(egress_ch[active_tunnels[h]]) >= EgressCap)
              => (h \in DOMAIN sockets' /\ sockets'[h].rx = sockets[h].rx)]_vars

\* the step of the event loop that handles a trapped SYN, and the trap it handles
TrapStep == trapsNow' # trapsNow /\ trapsNow' # {}
NewTrap == CHOOSE n \in trapsNow' \ trapsNow : TRUE

\* what the Fast path leaves behind for trap n when all of it succeeds
FastTrapLeaves(n) ==
    \E h \in (DOMAIN sockets') \ (DOMAIN sockets) :
        /\ sockets'[h].state = "Listen" /\ sockets'[h].local = n.dst
        /\ pending_packets' # <<>>
        /\ pending_packets'[Len(pending_packets')].id = n.id
        /\ h \in DOMAIN active_tunnels'
        /\ req_q' = Append(req_q, Request(n.dst, active_tunnels'[h], FALSE))
        /\ [h |-> h, tun |-> active_tunnels'[h]] \in ingress_streams'

Holds(src, dst) ==
    \E h \in DOMAIN sockets : sockets[h].remote = src /\ sockets[h].local = dst

C9_RegistryMatchesSockets ==
    pc = "select" =>
        DOMAIN active_tunnels = {h \in DOMAIN sockets : sockets[h].state # "Closed"}

\* C10: no target has both a pending SYN and an active tunnel.
C10_NoPendingForActiveTarget ==
    \A t \in DOMAIN pending_syns :
        ~\E h \in (DOMAIN active_tunnels) \cap (DOMAIN sockets) : sockets[h].local = t


\* the connection of client src to endpoint dst has been trapped and is still in
\* progress: a socket holds it, or its SYN waits in this batch or in pending_syns
AlreadyTrapped(src, dst) ==
    \/ Holds(src, dst)
    \/ \E n \in trapsNow : n.src = src /\ n.dst = dst /\ n.ok
    \/ dst \in DOMAIN pending_syns /\ pending_syns[dst].packet.src = src

\* C11: a retransmitted SYN of a connection that has already been trapped makes no
\* second tunnel request and no second socket, in either mode.
C11_OneRequestPerConnection ==
    [][(TrapStep /\ AlreadyTrapped(NewTrap.src, NewTrap.dst)) =>
          /\ nTun' = nTun
          /\ req_q' = req_q
          /\ DOMAIN sockets' = DOMAIN sockets]_vars


\* C12: after the relayer drops its ends of a tunnel's channels, the handle of the
\* tunnel is eventually removed from the tunnel registry and from the socket set
\* (or run has returned, which drops both).
C12_ClosedTunnelRemoved ==
    \A k \in 1..MaxSyns :
        (k \in closed.tunnels /\ \E h \in DOMAIN active_tunnels : active_tunnels[h] = k)
        ~> (\/ \A h \in DOMAIN active_tunnels : active_tunnels[h] # k
            \/ pc = "done")


\* C17: once the TUN inbound channel is closed or the relayer has dropped the
\* receiver of the tunnel request channel, run returns Ok.
C17_RunReturnsAfterClose ==
    (closed.ends # {}) ~> (pc = "done")


\* C13: every registered handle whose socket is Closed or TimeWait at the egress
\* pump is out of the tunnel registry and of the socket set when that iteration
\* ends; handles leave the registry only in that step, which follows the poll.
C13_TerminalSocketsReaped ==
    /\ [][(pc = "pump" /\ pc' = "select") =>
             \A h \in DOMAIN active_tunnels :
                 sockets[h].state \in {"Closed", "TimeWait"}
                 => (h \notin DOMAIN active_tunnels' /\ h \notin DOMAIN sockets')]_vars
    /\ [][(\E h \in DOMAIN active_tunnels : h \notin DOMAIN active_tunnels')
          => pc = "pump"]_vars
    /\ [][(pc # "pump" /\ pc' = "pump") => pc = "poll"]_vars

\* a connection was registered and reset, and the reap has removed its socket
C13_Witness ==
    /\ mode = "Fast"
    /\ pc = "select"
    /\ nTun > 0
    /\ sockets = Empty
    /\ active_tunnels = Empty

\* the bytes of a sequence of chunks, in order
RECURSIVE Flatten(_)
Flatten(chunks) == IF chunks = <<>> THEN <<>> ELSE Head(chunks) \o Flatten(Tail(chunks))

\* the payload units of q are in the order the client sent them, each once
InStreamOrder(q) == \A i, j \in 1..Len(q) : i < j => q[i] < q[j]

OtherStep ==
    /\ pc \in {"select", "batch"}
    /\ rx_queue # <<>>
    /\ rx_queue' = Tail(rx_queue)
    /\ get_packet_type(Head(rx_queue)) = Other

\* C15: handling a packet classified Other, with a blind-relay sender: the packet
\* itself is offered once to the blind-relay channel (it is the new last item when
\* the channel has room, and dropped when it is full), no tunnel request is made and
\* the PHY pending queue is unchanged; with no sender: the packet is appended to the
\* PHY pending queue and nothing reaches the relay channel.
C15_OtherGoesToRelay ==
    [][OtherStep =>
         LET pkt == Head(rx_queue)
         IN /\ req_q' = req_q /\ nTun' = nTun /\ sockets' = sockets
            /\ IF blind_relay_tx
               THEN /\ relay_q' = IF Len(relay_q) < RelayCap THEN Append(relay_q, pkt)
                                  ELSE relay_q
                    /\ pending_packets' = pending_packets
               ELSE /\ pending_packets' = Append(pending_packets, pkt)
                    /\ relay_q' = relay_q]_vars

\* a UDP packet was taken by a stack with a relay: it is on the relay channel
\* and the PHY pending queue is empty
C15_Witness ==
    /\ blind_relay_tx
    /\ relay_q # <<>> /\ get_packet_type(Head(relay_q)) = Other
    /\ pending_packets = <<>>
    /\ nPkts = 1 /\ rx_queue = <<>>

\* a UDP packet was taken by a stack without a relay: it waits for the poll
C15_QueuedWithoutRelay ==
    /\ ~blind_relay_tx
    /\ pending_packets # <<>> /\ get_packet_type(Head(pending_packets)) = Other
    /\ relay_q = <<>>
    /\ nPkts = 1 /\ rx_queue = <<>>

\* the trap handled in this step asks for a tunnel and try_send fails
RequestFails ==
    /\ TrapStep
    /\ tunnel_req_tx
    /\ ~ReqRoom
    /\ mode = "Fast" => NewTrap.dst.port # 0

C16_ConsistentFailed ==
    /\ mode = "Consistent"
    /\ tunnel_req_tx
    /\ Len(req_q) = ReqCap
    /\ \E n \in trapsNow : n.dst.port # 0 /\ n.dst \notin DOMAIN pending_syns


\* the request of tunnel k has been answered by the relayer, or its confirmation
\* sender dropped
Settled(k) == k \notin DOMAIN tasks \/ tasks[k].val # "wait"

\* pending_syns holds the entry made by the trap that requested tunnel k
EntryOf(t, k) == t \in DOMAIN pending_syns /\ pending_syns[t].tun = k

\* C18: a wait task whose confirmation sender was dropped sends the feedback
\* (target, false), the same message as for an answer of false; and every entry of
\* pending_syns is eventually removed once the request it belongs to has been
\* answered or its confirmation dropped.
C18_DroppedIsFalseAndEntryRemoved ==
    /\ [][\A k \in DOMAIN tasks :
             (tasks[k].val \in {"dropped", "false"} /\ k \notin DOMAIN tasks')
             => feedback_q' = Append(feedback_q,
                                  [target |-> tasks[k].target, success |-> FALSE])]_vars
    /\ \A t \in {T80, T0} : \A k \in 1..MaxSyns :
          (EntryOf(t, k) /\ Settled(k)) ~> ~EntryOf(t, k)

\* the relayer dropped a confirmation, and the SYN that waited for it was dropped
C18_Witness ==
    \E k \in closed.tunnels :
        /\ k \in DOMAIN reqInfo
        /\ reqInfo[k].id \in droppedSyns
        /\ k \notin okTunnels
        /\ reqInfo[k].target \notin DOMAIN pending_syns


\* some extension header of p would extend past the buffer
Truncated(p) == \E i \in 1..Len(p.ext) : ~p.ext[i].fits

\* C19: for an IPv6 packet whose extension-header chain is truncated or has 11 or
\* more headers, get_packet_type returns Unknown.
C19_BrokenChainIsUnknown ==
    (/\ tpc = "out"
     /\ ~inPkt.empty
     /\ inPkt.ver = 6
     /\ Truncated(inPkt) \/ Len(inPkt.ext) > ExtWalkLimit)
    => outTy = Unknown

\* C20: for an IPv6 packet with exactly 10 chained HopByHop headers, all within the
\* buffer, followed by an L4 header, get_packet_type returns Tcp when the terminal
\* next-header is TCP and Other when it is not.
C20_TenHeadersGiveTerminal ==
    (/\ tpc = "out"
     /\ ~inPkt.empty
     /\ inPkt.ver = 6
     /\ inPkt.ipOk
     /\ Len(inPkt.ext) = 10
     /\ \A i \in 1..10 : inPkt.ext[i].kind = "HopByHop" /\ inPkt.ext[i].fits)
    => outTy = (IF inPkt.proto = "tcp" THEN Tcp ELSE Other)


\* C21: get_packet_type returns Unknown for the empty buffer, for a version nibble
\* other than 4 and 6 and for a version-4 buffer whose IPv4 header fails the checked
\* parse; for a valid IPv4 packet it returns Tcp when the protocol is TCP and Other
\* for every other protocol.
C21_Ipv4Classification ==
    tpc = "out" =>
        /\ inPkt.empty => outTy = Unknown
        /\ (~inPkt.empty /\ inPkt.ver \notin {4, 6}) => outTy = Unknown
        /\ (~inPkt.empty /\ inPkt.ver = 4 /\ ~inPkt.ipOk) => outTy = Unknown
        /\ (~inPkt.empty /\ inPkt.ver = 4 /\ inPkt.ipOk)
           => outTy = (IF inPkt.proto = "tcp" THEN Tcp ELSE Other)

\* a valid IPv4 packet of a protocol that is neither TCP nor UDP was classified
C21_Witness ==
    /\ tpc = "out"
    /\ ~inPkt.empty /\ inPkt.ver = 4 /\ inPkt.ipOk
    /\ inPkt.proto \notin {"tcp", "udp"}
    /\ outTy = Other

\* the empty buffer was classified
C21_EmptySeen == tpc = "out" /\ inPkt.empty /\ outTy = Unknown


\* Event A takes a packet that get_packet_type classifies Unknown
UnknownStep ==
    /\ pc \in {"select", "batch"}
    /\ rx_queue # <<>>
    /\ rx_queue' = Tail(rx_queue)
    /\ get_packet_type(Head(rx_queue)) = Unknown

\* C22: a packet classified Unknown is dropped by the core: handling it makes no
\* trap, no tunnel request and no blind-relay item, and leaves the PHY pending
\* queue as it was.
C22_UnknownIsDropped ==
    [][UnknownStep =>
         /\ trapsNow' = trapsNow
         /\ req_q' = req_q /\ nTun' = nTun
         /\ relay_q' = relay_q
         /\ pending_packets' = pending_packets]_vars


\* C23: inspecting the stored packet of a trap event gives a trap event again, with
\* the same destination and a packet identical to the stored one: the clamp applied
\* twice leaves the bytes of the clamp applied once.
C23_ClampIdempotent ==
    tpc = "again" => /\ outAgain.tag = "some"
                     /\ outAgain.dst = outEv.dst
                     /\ outAgain.packet = outEv.packet

\* a SYN whose MSS was above the limit has been clamped and inspected again
C23_Witness ==
    /\ tpc = "again"
    /\ FindMss(OptionsOf(inPkt), 0) >= 0
    /\ MssAt(inPkt, FindMss(OptionsOf(inPkt), 0)) > DEFAULT_MSS_CLAMP
    /\ outEv.packet # inPkt
    /\ outAgain.tag = "some"


\* a Fast trap whose socket.listen fails (port 0) is handled in this step
FastListenFails == TrapStep /\ mode = "Fast" /\ NewTrap.dst.port = 0

\* Event C handles a positive confirmation whose socket.listen fails
ConfirmedListenFails ==
    /\ pc = "select" /\ pc' = "poll"
    /\ feedback_q # <<>> /\ feedback_q' = Tail(feedback_q)
    /\ Head(feedback_q).success
    /\ Head(feedback_q).target.port = 0
    /\ Head(feedback_q).target \in DOMAIN pending_syns

\* C24: when socket.listen fails, for a Fast trap or for a positive confirmation in
\* Consistent mode, no socket is added, the tunnel registry and the ingress fan-in
\* get no entry and the SYN is not put in the PHY pending queue.
C24_ListenFailureDropsTrap ==
    [][(FastListenFails \/ ConfirmedListenFails) =>
         /\ sockets' = sockets
         /\ active_tunnels' = active_tunnels
         /\ ingress_streams' = ingress_streams
         /\ pending_packets' = pending_packets]_vars

\* the relayer confirmed the tunnel of a SYN to port 0 and the SYN was dropped
C24_Witness ==
    \E k \in okTunnels :
        /\ reqInfo[k].target.port = 0
        /\ reqInfo[k].id \in droppedSyns
        /\ reqInfo[k].target \notin DOMAIN pending_syns

\* a Fast trap to port 0 has just been handled
C24_FastSeen ==
    /\ mode = "Fast"
    /\ \E n \in trapsNow : n.dst.port = 0
    /\ sockets = Empty


\* C25: a header written with write_to and parsed back has the same six fields; a
\* buffer of 10 bytes or more parsed and written again gives its first 10 bytes;
\* parse returns None for a buffer of fewer than 10 bytes.
C25_HeaderRoundTrip ==
    opc = "out" =>
        /\ offOut.op = "write_parse" => offOut.hdr = offIn.val
        /\ offOut.op = "parse_write" =>
              IF Len(offIn.val) < VIRTIO_NET_HDR_SIZE
              THEN offOut.hdr = NoHdr
              ELSE /\ offOut.hdr.tag = "some"
                   /\ offOut.bytes = SubSeq(offIn.val, 1, VIRTIO_NET_HDR_SIZE)

\* a header with fields above 255 went through write_to and parse
C25_Witness ==
    /\ opc = "out"
    /\ offOut.op = "write_parse"
    /\ offIn.val.gso_size = 1460
    /\ offIn.val.csum_start = 65535
    /\ offOut.hdr.gso_size = 1460

\* a 10-byte buffer with bytes of both values went through parse and write_to
C25_BufferSeen ==
    /\ opc = "out"
    /\ offOut.op = "parse_write"
    /\ Len(offIn.val) = VIRTIO_NET_HDR_SIZE
    /\ offIn.val[3] = 255 /\ offIn.val[4] = 0
    /\ offOut.bytes = offIn.val

\* C26: for every packet p, prepend_virtio_hdr_none and prepend_virtio_hdr_csum
\* return p behind a header of exactly 10 bytes, and strip_virtio_hdr of the result
\* is p.
C26_StripUndoesPrepend ==
    (opc = "out" /\ offOut.op \in {"none", "csum"}) =>
        /\ offOut.framed.tag = "ok"
        /\ Len(offOut.framed.buf) = VIRTIO_NET_HDR_SIZE + Len(offIn.val)
        /\ offOut.stripped = [tag |-> "ok", buf |-> offIn.val]

\* the version nibble of a packet, and whether the packet reaches its protocol byte
VersionOf(p) == p[1] \div 16
HasProto(p) ==
    /\ p # <<>>
    /\ \/ VersionOf(p) = 4 /\ Len(p) >= 10
       \/ VersionOf(p) = 6 /\ Len(p) >= 7
ProtoOf(p) == IF VersionOf(p) = 4 THEN p[10] ELSE p[7]

\* C27: prepend_virtio_hdr_csum of an IPv4 or IPv6 packet whose protocol is TCP or
\* UDP writes flags = NEEDS_CSUM, gso_type = NONE, csum_start = the IP header length
\* (4 * IHL for IPv4, 40 for IPv6) and csum_offset = 16 for TCP, 6 for UDP; for any
\* other protocol (an extension header included), for any other version and for
\* the empty packet the header is the ten zero bytes of prepend-none.
C27_CsumHeaderFields ==
    (opc = "out" /\ offOut.op = "csum") =>
        LET p == offIn.val
        IN /\ (HasProto(p) /\ ProtoOf(p) \in {ProtoTcp, ProtoUdp}) =>
                 /\ offOut.framed.tag = "ok"
                 /\ LET h == parse(offOut.framed.buf)
                    IN /\ h.flags = VIRTIO_NET_HDR_F_NEEDS_CSUM
                       /\ h.gso_type = VIRTIO_NET_HDR_GSO_NONE
                       /\ h.csum_start = (IF VersionOf(p) = 4 THEN 4 * (p[1] % 16) ELSE 40)
                       /\ h.csum_offset = (IF ProtoOf(p) = ProtoTcp THEN 16 ELSE 6)
           /\ (\/ p = <<>>
               \/ p # <<>> /\ VersionOf(p) \notin {4, 6}
               \/ HasProto(p) /\ ProtoOf(p) \notin {ProtoTcp, ProtoUdp}) =>
                 offOut.framed = prepend_virtio_hdr_none(p)

\* an IPv6 UDP packet got the checksum-offload header
C27_Witness ==
    /\ opc = "out"
    /\ offOut.op = "csum"
    /\ Len(offIn.val) = 40 /\ VersionOf(offIn.val) = 6 /\ ProtoOf(offIn.val) = ProtoUdp
    /\ parse(offOut.framed.buf).csum_start = 40
    /\ parse(offOut.framed.buf).csum_offset = 6

\* an IPv6 packet whose next header is HopByHop got the all-zero header
C27_ExtensionSeen ==
    /\ opc = "out"
    /\ offOut.op = "csum"
    /\ Len(offIn.val) = 40 /\ VersionOf(offIn.val) = 6 /\ ProtoOf(offIn.val) = 0
    /\ parse(offOut.framed.buf) = none



(***************************************************************************)
(* Tunnel ingress: the relayer's echo tasks (examples/check_tun.rs) and    *)
(* Event B of the event loop (stack.rs).                                   *)
(***************************************************************************)
IngressCap == 1    \* chunks a tunnel's ingress channel holds
TxBufCap == 2      \* units a socket's send buffer holds
MaxIn == 5         \* packets the TUN reader reads

\* the sender of tunnel k's egress channel is held by the stack
EgressSenderLives(k) ==
    \/ \E h \in DOMAIN active_tunnels : active_tunnels[h] = k
    \/ \E t \in DOMAIN pending_syns : pending_syns[t].tun = k

\* the echo task of a tunnel whose request the relayer took: rx.recv() returned a
\* chunk and the awaited tx.send(data) completes
EchoTask ==
    /\ \E k \in DOMAIN egress_ch :
          /\ k \notin TunsOf(req_q)
          /\ k \notin closed.tunnels
          /\ egress_ch[k] # <<>>
          /\ Len(IngressOf(k)) < IngressCap
          /\ egress_ch' = [egress_ch EXCEPT ![k] = Tail(@)]
          /\ ingress_ch' = (k :> Append(IngressOf(k), Head(egress_ch[k]))) @@ ingress_ch
    /\ UNCHANGED <<configVars, closed, rx_queue, pending_packets, tx_queue, relay_q,
                   req_q, sockets, active_tunnels, ingress_streams, pending_syns,
                   feedback_q, tasks, ip_addrs, pc, count, nPkts, nTun, reqInfo,
                   okTunnels, droppedSyns, emittedNow, trapsNow>>

\* the echo task ends: rx.recv() returned None, the task drops its ingress sender
EchoEnd ==
    /\ \E k \in DOMAIN egress_ch :
          /\ k \notin TunsOf(req_q)
          /\ k \notin closed.tunnels
          /\ egress_ch[k] = <<>>
          /\ ~EgressSenderLives(k)
          /\ closed' = [closed EXCEPT !.tunnels = @ \cup {k}]
    /\ UNCHANGED <<configVars, ingress_ch, rx_queue, pending_packets, tx_queue, relay_q,
                   req_q, sockets, active_tunnels, ingress_streams, pending_syns,
                   feedback_q, tasks, egress_ch, ip_addrs, pc, count, nPkts, nTun,
                   reqInfo, okTunnels, droppedSyns, emittedNow, trapsNow>>

\* tcp::Socket::can_send
can_send(s) == may_send(s) /\ Len(s.tx) < TxBufCap

\* tcp::Socket::send_slice: the units of data that fit are enqueued
send_slice(s, data) ==
    LET room == TxBufCap - Len(s.tx)
        n == IF Len(data) < room THEN Len(data) ELSE room
    IN [s EXCEPT !.tx = s.tx \o SubSeq(data, 1, n)]

\* the body of Event B once the socket is found
IngressWrite(s, data) == IF can_send(s) THEN send_slice(s, data) ELSE s

\* Event B: ingress_streams.next() yielded (handle, data)
EventB ==
    /\ pc = "select"
    /\ \E st \in ingress_streams :
          /\ IngressOf(st.tun) # <<>>
          /\ ingress_ch' = [ingress_ch EXCEPT ![st.tun] = Tail(@)]
          /\ IF st.h \notin DOMAIN sockets
             THEN \* sockets.get_mut panics
                  /\ pc' = "panic"
                  /\ UNCHANGED sockets
             ELSE /\ sockets' = [sockets EXCEPT
                                   ![st.h] = IngressWrite(@, Head(ingress_ch[st.tun]))]
                  /\ pc' = "poll"
    /\ UNCHANGED <<configVars, closed, rx_queue, pending_packets, tx_queue, relay_q,
                   req_q, active_tunnels, ingress_streams, pending_syns, feedback_q,
                   tasks, egress_ch, ip_addrs, count, nPkts, nTun, reqInfo, okTunnels,
                   droppedSyns, emittedNow, trapsNow>>

\* one client's connection: it opens, acknowledges, sends data, resets
ConnPackets == {Syn("c1", T80), Ack("c1", T80), Rst("c1", T80)}

TunReaderConn ==
    /\ "tun" \notin closed.ends
    /\ nPkts < MaxIn
    /\ \E p \in ConnPackets, d \in BOOLEAN :
          /\ d => (p = Ack("c1", T80))
          /\ rx_queue' = Append(rx_queue,
                 [p EXCEPT !.id = nPkts + 1, !.data = IF d THEN nPkts + 1 ELSE 0])
    /\ nPkts' = nPkts + 1
    /\ UNCHANGED <<fixedVars, pending_packets, tx_queue, relay_q, req_q, sockets,
                   active_tunnels, ingress_streams, pending_syns, feedback_q, tasks,
                   egress_ch, ip_addrs, pc, count, nTun, reqInfo, okTunnels,
                   droppedSyns, emittedNow, trapsNow>>

\* Fast mode with the request sender set and no blind relay
InitIngress ==
    /\ mode = "Fast"
    /\ egress_mtu = DEFAULT_MSS_CLAMP
    /\ tunnel_req_tx = TRUE
    /\ blind_relay_tx = FALSE
    /\ InitStack
    /\ InitTrapIdle
    /\ InitOffloadIdle

NextIngress ==
    \/ TunReaderConn
    \/ TunWriter
    \/ Relayer
    \/ EchoTask
    \/ EchoEnd
    \/ StreamEnd
    \/ EventA_Recv
    \/ EventA_Next
    \/ EventA_Done
    \/ EventB
    \/ EventD
    \/ Poll
    \/ Pump

\* Fast mode with an echoing relayer
SpecIngress == InitIngress /\ [][NextIngress]_vars

\* Event B takes the chunk at the head of the ingress channel of stream st
EventBStep(st) ==
    /\ pc = "select"
    /\ IngressOf(st.tun) # <<>>
    /\ ingress_ch' = [ingress_ch EXCEPT ![st.tun] = Tail(@)]

\* C28: tunnel-ingress data that arrives after its handle's socket was reaped is
\* ignored: the event loop keeps running and no socket's send buffer changes
C28_StaleIngressIgnored ==
    [][\A st \in ingress_streams :
          (EventBStep(st) /\ st.h \notin DOMAIN sockets)
              => (pc' # "panic" /\ sockets' = sockets)]_vars

\* a chunk waits in the ingress channel of a stream whose socket was reaped
C28_StaleChunkWaits ==
    \E st \in ingress_streams : IngressOf(st.tun) # <<>> /\ st.h \notin DOMAIN sockets

\* Event B on stream st appends a prefix of the chunk it took to the send buffer of
\* the socket at st.h and leaves every other socket alone
WritesPrefix(st) ==
    LET data == Head(ingress_ch[st.tun])
    IN /\ \E n \in 0..Len(data) :
             sockets' = [sockets EXCEPT ![st.h].tx = @ \o SubSeq(data, 1, n)]
       /\ may_send(sockets[st.h]) =>
             \/ sockets'[st.h].tx = sockets[st.h].tx \o data
             \/ Len(sockets'[st.h].tx) = TxBufCap

\* the socket at st.h is the one registered with the tunnel of st
Paired(st) == st.h \in DOMAIN active_tunnels /\ active_tunnels[st.h] = st.tun

\* C29: bytes taken from a tunnel's ingress channel are appended, in arrival order,
\* to the send buffer of the socket paired with that tunnel; of a chunk that does
\* not fit a prefix is written and only the rest is dropped
C29_IngressWrittenInOrder ==
    [][\A st \in ingress_streams :
          (EventBStep(st) /\ st.h \in DOMAIN sockets)
              => (Paired(st) /\ WritesPrefix(st))]_vars

\* a send buffer holds a unit that the client sent before the connection of the
\* buffer's socket was opened: the unit came back on the tunnel of an older socket
C29_ForeignBytes ==
    \E h \in DOMAIN sockets \cap DOMAIN active_tunnels :
       \E i \in 1..Len(sockets[h].tx) :
          sockets[h].tx[i] < reqInfo[active_tunnels[h]].id

\* every Event B step on a live handle writes a prefix of its chunk
C29_PrefixOnly ==
    [][\A st \in ingress_streams :
          (EventBStep(st) /\ st.h \in DOMAIN sockets) => WritesPrefix(st)]_vars

\* a TCP packet that is not a trapped SYN
NonSynTcp(p) == get_packet_type(p) = Tcp /\ inspect_packet(p).tag # "some"

\* the packet p is handled by exactly one arm of Event A
RoutedOnce(p) ==
    IF get_packet_type(p) = Tcp /\ inspect_packet(p).tag = "some"
    THEN /\ \E n \in trapsNow' \ trapsNow : n.id = p.id
         /\ relay_q' = relay_q
    ELSE IF get_packet_type(p) = Other /\ blind_relay_tx
    THEN /\ relay_q' = Append(relay_q, p) \/ (relay_q' = relay_q /\ Len(relay_q) = RelayCap)
         /\ pending_packets' = pending_packets
         /\ trapsNow' = trapsNow
    ELSE /\ pending_packets' = Append(pending_packets, p)
         /\ relay_q' = relay_q
         /\ trapsNow' = trapsNow

\* the inbound channel holds, in the order they were read, exactly the packets
\* that are not handled yet
RxIsUnhandledSuffix ==
    \A i \in 1..Len(rx_queue) : rx_queue[i].id = nPkts - Len(rx_queue) + i

\* C30: a wake-up on the TUN inbound channel handles at most BatchLimit packets
\* before the poll; the packets leave the channel one at a time from its head, each
\* handled by exactly one arm when it leaves, none lost or overtaken where a batch
\* ends; non-SYN TCP packets lie in the PHY pending queue in arrival order
C30_BatchedFifo ==
    /\ [](/\ count <= BatchLimit
          /\ pc = "batch" => count < BatchLimit
          /\ RxIsUnhandledSuffix
          /\ \A i, j \in 1..Len(pending_packets) :
                (i < j /\ NonSynTcp(pending_packets[i]) /\ NonSynTcp(pending_packets[j]))
                    => pending_packets[i].id < pending_packets[j].id)
    /\ [][rx_queue' # rx_queue =>
                \/ /\ Len(rx_queue') = Len(rx_queue) + 1
                   /\ SubSeq(rx_queue', 1, Len(rx_queue)) = rx_queue
                \/ /\ rx_queue # <<>>
                   /\ rx_queue' = Tail(rx_queue)
                   /\ RoutedOnce(Head(rx_queue))
                   /\ count' = (IF pc = "select" THEN 0 ELSE count) + 1]_vars

\* a batch ended at its limit with a packet left in the channel for the next
\* wake-up, and a non-SYN TCP packet of the batch is in the PHY pending queue
C30_Witness ==
    /\ pc = "poll"
    /\ count = BatchLimit
    /\ rx_queue # <<>>
    /\ \E i \in 1..Len(pending_packets) : NonSynTcp(pending_packets[i])

(***************************************************************************)
(* The PHY seen call by call (device.rs): Interface::poll asks receive()   *)
(* for one packet after the other until it returns None.                   *)
(***************************************************************************)
\* PrismDevice::receive that polls the inbound channel when the deque is empty
receive_TryRecv(pend, rxq) ==
    IF pend # <<>>
    THEN [tok |-> <<Head(pend)>>, pend |-> Tail(pend), rxq |-> rxq]
    ELSE IF rxq # <<>>
    THEN [tok |-> <<Head(rxq)>>, pend |-> pend, rxq |-> Tail(rxq)]
    ELSE [tok |-> <<>>, pend |-> pend, rxq |-> rxq]

\* PrismDevice::receive: tok is <<buffer>> for Some((RxTokenImpl(buffer), ..)), <<>>
\* for None; pend and rxq are the deque and the inbound channel after the call
receive(pend, rxq) ==
    IF pend # <<>>
    THEN [tok |-> <<Head(pend)>>, pend |-> Tail(pend), rxq |-> rxq]
    ELSE [tok |-> <<>>, pend |-> pend, rxq |-> rxq]

\* iface.poll: receive() returned a token; RxTokenImpl::consume hands its buffer to
\* the library, which processes the packet and transmits the reply
PollReceive ==
    /\ pc = "poll"
    /\ \E r \in {receive(pending_packets, rx_queue)} :
          /\ r.tok # <<>>
          /\ pending_packets' = r.pend
          /\ rx_queue' = r.rxq
          /\ \E one \in {ProcessOne(sockets, ip_addrs, r.tok[1])} :
                /\ sockets' = one.socks
                /\ tx_queue' = TxConsume(tx_queue, one.out)
                /\ emittedNow' = emittedNow \cup Range(one.out)
    /\ UNCHANGED <<fixedVars, relay_q, req_q, active_tunnels, ingress_streams,
                   pending_syns, feedback_q, tasks, egress_ch, ip_addrs, pc, count,
                   nPkts, nTun, reqInfo, okTunnels, droppedSyns, trapsNow>>

\* iface.poll: receive() returned None; the sockets send what they hold
PollNone ==
    /\ pc = "poll"
    /\ \E r \in {receive(pending_packets, rx_queue)} :
          /\ r.tok = <<>>
          /\ pending_packets' = r.pend
          /\ rx_queue' = r.rxq
    /\ sockets' = DispatchSocks(sockets)
    /\ tx_queue' = TxConsume(tx_queue, DispatchOut(sockets, DOMAIN sockets))
    /\ emittedNow' = emittedNow \cup Range(DispatchOut(sockets, DOMAIN sockets))
    /\ pc' = "pump"
    /\ UNCHANGED <<fixedVars, relay_q, req_q, active_tunnels, ingress_streams,
                   pending_syns, feedback_q, tasks, egress_ch, ip_addrs, count,
                   nPkts, nTun, reqInfo, okTunnels, droppedSyns, trapsNow>>

NextDevice ==
    \/ TunReaderMixed
    \/ TunWriter
    \/ Relayer
    \/ BlindRelay
    \/ EventA_Recv
    \/ EventA_Next
    \/ EventA_Done
    \/ EventD
    \/ PollReceive
    \/ PollNone
    \/ Pump

\* the traffic of SpecRelay with the poll taken one receive() at a time
SpecDevice == InitRelay /\ [][NextDevice]_vars

IsPrefix(a, b) == Len(a) <= Len(b) /\ SubSeq(b, 1, Len(a)) = a

\* a step of the poll: one call of receive()
ReceiveCall == pc = "poll" /\ (pending_packets' # pending_packets \/ pc' # pc)

\* C31: receive() hands out the packets of pending_packets front first, one per
\* call, and nothing when the deque is empty; it takes nothing from rx_queue,
\* which only Event A of the event loop consumes
C31_ReceiveIsFifoOverPending ==
    [][/\ ReceiveCall =>
            /\ IsPrefix(rx_queue, rx_queue')
            /\ IF pending_packets = <<>>
               THEN /\ pending_packets' = <<>>
                    /\ sockets' = DispatchSocks(sockets)
                    /\ pc' = "pump"
               ELSE /\ pending_packets' = Tail(pending_packets)
                    /\ sockets' =
                          ProcessOne(sockets, ip_addrs, Head(pending_packets)).socks
                    /\ pc' = "poll"
       /\ Len(rx_queue') < Len(rx_queue) =>
            (pc \in {"select", "batch"} /\ rx_queue' = Tail(rx_queue))]_vars

\* a poll has handed out a packet and ended on an empty deque while a packet waits
\* in the inbound channel
C31_Witness ==
    /\ pc = "pump"
    /\ pending_packets = <<>>
    /\ rx_queue # <<>>
    /\ emittedNow # {}

(***************************************************************************)
(* The transmit token (device.rs).                                         *)
(***************************************************************************)
TX_POOL_KEEP == 2048   \* a split buffer goes back to the pool with this capacity left
MaxTxLen == 3          \* bytes the library asks a transmit token for
Bytes01 == {0, 1}
Results == {1, 2}      \* what the writer closure returns

\* TxTokenImpl::consume that makes room in a full channel by dropping its oldest packet
consume_DropOldest(pool, q, len, bytes, result) ==
    [pool |-> pool,
     q |-> IF Len(q) < TxCap THEN Append(q, bytes) ELSE Append(Tail(q), bytes),
     ret |-> result]

\* TxTokenImpl::consume(len, f): pool and q are tx_pool and tx_queue, bytes is what f
\* writes into the len bytes of the buffer, result is what f returns
consume(pool, q, len, bytes, result) ==
    LET pooled == pool # <<>>
        \* tx_pool.pop() or BytesMut::with_capacity(len)
        cap0 == IF pooled THEN pool[Len(pool)] ELSE len
        rest0 == IF pooled THEN SubSeq(pool, 1, Len(pool) - 1) ELSE pool
        \* buffer.reserve(len - capacity) on a buffer of length 0
        cap1 == IF cap0 < len /\ cap0 < len - cap0 THEN len - cap0 ELSE cap0
        \* split_to(len): the buffer keeps what lies behind the packet
        left == cap1 - len
    IN IF cap1 < len
       THEN \* set_len beyond the capacity
            [pool |-> rest0, q |-> q, ret |-> "undefined"]
       ELSE [pool |-> IF left < TX_POOL_KEEP THEN rest0 ELSE Append(rest0, left),
             q |-> IF Len(q) < TxCap THEN Append(q, bytes) ELSE q,
             ret |-> result]

RECURSIVE BytesOfLen(_)
BytesOfLen(n) ==
    IF n = 0 THEN {<<>>}
    ELSE {Append(b, x) : b \in BytesOfLen(n - 1), x \in Bytes01}

\* the library consumes a transmit token
TxCall ==
    /\ \E len \in 0..MaxTxLen, result \in Results :
          \E bytes \in BytesOfLen(len) :
             \E r \in {consume(tx_pool, tx_queue, len, bytes, result)} :
                /\ tx_pool' = r.pool
                /\ tx_queue' = r.q
                /\ txRes' = [len |-> len, bytes |-> bytes, want |-> result,
                             ret |-> r.ret]
    /\ UNCHANGED <<mode, egress_mtu, tunnel_req_tx, blind_relay_tx, trapVars, offVars,
                   closed, ingress_ch, rx_queue, pending_packets, relay_q, req_q,
                   sockets, active_tunnels, ingress_streams, pending_syns, feedback_q,
                   tasks, egress_ch, ip_addrs, pc, count, nPkts, nTun, reqInfo,
                   okTunnels, droppedSyns, emittedNow, trapsNow>>

NextTx == TxCall \/ TunWriter

\* the PHY's transmit side and the TUN writer
SpecTx == InitFast /\ [][NextTx]_vars

\* a step in which a transmit token is consumed
TxStep == Len(tx_queue') >= Len(tx_queue) /\ <<tx_queue, txRes>>' # <<tx_queue, txRes>>

\* C32: consuming a transmit token with length len offers one packet of len bytes
\* to the egress channel; when the channel is full the packet is dropped, the
\* channel keeps its contents, and the writer closure's result is returned anyway
C32_ConsumeOffersOnePacket ==
    [][TxStep =>
          /\ Len(txRes'.bytes) = txRes'.len
          /\ txRes'.ret = txRes'.want
          /\ IF Len(tx_queue) < TxCap
             THEN tx_queue' = Append(tx_queue, txRes'.bytes)
             ELSE tx_queue' = tx_queue]_vars

\* the last token was consumed on a full channel: its packet is not in the channel
C32_Witness ==
    /\ Len(tx_queue) = TxCap
    /\ txRes.len > 0
    /\ tx_queue[TxCap] # txRes.bytes

(***************************************************************************)
(* Connections to several destination addresses.                           *)
(***************************************************************************)
MaxDst == 3    \* SYNs the applications send, each to a destination of its own choice
DstIps == {"a", "b", "c"}

TunReaderDsts ==
    /\ "tun" \notin closed.ends
    /\ nPkts < MaxDst
    /\ \E i \in DstIps :
          rx_queue' = Append(rx_queue, [Syn("c1", Target(i, 80)) EXCEPT !.id = nPkts + 1])
    /\ nPkts' = nPkts + 1
    /\ UNCHANGED <<fixedVars, pending_packets, tx_queue, relay_q, req_q, sockets,
                   active_tunnels, ingress_streams, pending_syns, feedback_q, tasks,
                   egress_ch, ip_addrs, pc, count, nTun, reqInfo, okTunnels,
                   droppedSyns, emittedNow, trapsNow>>

\* either handshake mode, the request sender set, no blind relay
InitDsts ==
    /\ mode \in {"Fast", "Consistent"}
    /\ egress_mtu = DEFAULT_MSS_CLAMP
    /\ tunnel_req_tx = TRUE
    /\ blind_relay_tx = FALSE
    /\ InitStack
    /\ InitTrapIdle
    /\ InitOffloadIdle

NextDsts ==
    \/ TunReaderDsts
    \/ TunWriter
    \/ Relayer
    \/ WaitTask
    \/ EventA_Recv
    \/ EventA_Next
    \/ EventA_Done
    \/ EventC
    \/ EventD
    \/ Poll
    \/ Pump

SpecDsts == InitDsts /\ [][NextDsts]_vars

Occurrences(q, x) == Cardinality({i \in 1..Len(q) : q[i] = x})

\* C33: once a trap for destination address a is handled the interface address
\* list holds a exactly once; no address is ever removed; no address is listed twice
C33_TrappedAddressListed ==
    /\ [][\A n \in trapsNow' \ trapsNow : Occurrences(ip_addrs', n.dst.ip) = 1]_vars
    /\ [][IsPrefix(ip_addrs, ip_addrs')]_vars
    /\ [](\A i, j \in 1..Len(ip_addrs) : ip_addrs[i] = ip_addrs[j] => i = j)

\* the address list never shrinks and never lists an address twice
C33_GrowsWithoutDuplicates ==
    /\ [][IsPrefix(ip_addrs, ip_addrs')]_vars
    /\ [](\A i, j \in 1..Len(ip_addrs) : ip_addrs[i] = ip_addrs[j] => i = j)

\* C34: clamp_mss_raw terminates on every TCP header: no inspected packet leaves
\* the call of inspect_packet hanging in the option loop
C34_ClampTerminates ==
    tpc = "out" => outEv.tag # "hang"

\* the option loop ends on a TLV option of length 1 and on one that runs past the
\* end of the option area
C34_OtherCasesEnd ==
    \A o \in {<<3, 1>>, <<8, 10>>, <<3, 1, 3, 1>>, <<1, 8, 10>>, <<2, 0>>, <<2, 1>>} :
        ~ClampWalk(PadWords(o), 0).hang

\* C35: bytes of one connection's tunnel are never delivered to another connection:
\* whenever Event B changes a send buffer with a chunk taken from the ingress
\* channel of tunnel k, the buffer is that of the socket registered with tunnel k
C35_NoCrossDelivery ==
    [][\A st \in ingress_streams :
          EventBStep(st) =>
             \A h \in DOMAIN sockets \cap DOMAIN sockets' :
                sockets'[h].tx # sockets[h].tx
                    => (h \in DOMAIN active_tunnels /\ active_tunnels[h] = st.tun)]_vars


(***************************************************************************)
(* A relayer whose remote server speaks first: the chunk is sent on        *)
(* TunnelRequest.tx as soon as the request is taken (stack.rs).            *)
(***************************************************************************)
\* what the server of tunnel k sends first
ServerChunk(k) == <<k>>

\* the relayer takes a Fast-mode tunnel request and sends the server's first chunk
\* on the request's tx; the channel is new, the send completes at once
RelayerGreets ==
    /\ "req" \notin closed.ends
    /\ req_q # <<>>
    /\ ~Head(req_q).resp
    /\ req_q' = Tail(req_q)
    /\ ingress_ch' = (Head(req_q).tun :> <<ServerChunk(Head(req_q).tun)>>) @@ ingress_ch
    /\ UNCHANGED <<configVars, closed, rx_queue, pending_packets, tx_queue, relay_q,
                   sockets, active_tunnels, ingress_streams, pending_syns, feedback_q,
                   tasks, egress_ch, ip_addrs, pc, count, nPkts, nTun, reqInfo,
                   okTunnels, droppedSyns, emittedNow, trapsNow>>

NextGreet ==
    \/ TunReader
    \/ TunWriter
    \/ RelayerGreets
    \/ EventA_Recv
    \/ EventA_Next
    \/ EventA_Done
    \/ EventB
    \/ EventD
    \/ Poll
    \/ Pump

\* the loop's branches and the tasks are scheduled as in LoopFairness; Event B is a
\* branch of the same select!, the relayer a task of the same runtime
GreetFairness ==
    /\ SF_vars(EventA_Recv)
    /\ SF_vars(EventB)
    /\ WF_vars(EventA_Next)
    /\ WF_vars(EventA_Done)
    /\ WF_vars(Poll)
    /\ WF_vars(Pump)
    /\ WF_vars(RelayerGreets)

\* Fast mode with a relayer whose servers speak first
SpecGreet == InitIngress /\ [][NextGreet]_vars /\ GreetFairness

\* the sockets registered with tunnel k that are in one of the states sts
PairedIn(k, sts) ==
    {h \in DOMAIN active_tunnels \cap DOMAIN sockets :
        active_tunnels[h] = k /\ sockets[h].state \in sts}

\* the socket paired with tunnel k is live
PairedLive(k) == PairedIn(k, {"Listen", "SynReceived", "Established"}) # {}

\* the server's first chunk of tunnel k waits in the tunnel's ingress channel
ChunkWaits(k) == IngressOf(k) = <<ServerChunk(k)>>

\* the server's first chunk of tunnel k is in the send buffer of the paired socket
ChunkWritten(k) ==
    \E h \in PairedIn(k, {"Established"}) : sockets[h].tx = ServerChunk(k)

\* C36: a chunk the relayer sent while the paired socket is live is not lost to
\* timing: also when it is taken from the fan-in before the handshake has
\* completed, it reaches the socket's send buffer once the connection is
\* established, unless the socket ends or the connection is never established
C36_EarlyChunkDelivered ==
    \A k \in 1..MaxPkts :
        [](ChunkWaits(k) /\ PairedLive(k)
              => \/ <>(ChunkWritten(k) \/ ~PairedLive(k))
                 \/ []~(PairedIn(k, {"Established"}) # {}))

\* the case of C36: Event B has taken the chunk while the socket could not send,
\* and the connection is established afterwards
C36_TakenEarly ==
    \E k \in 1..MaxPkts :
        /\ k \in DOMAIN ingress_ch /\ ingress_ch[k] = <<>>
        /\ \E h \in PairedIn(k, {"Established"}) : sockets[h].tx = <<>>


\* C37: reaping never discards client data: a socket that leaves the socket set
\* has no receivable bytes left in its receive buffer
C37_ReapKeepsClientData ==
    [][\A h \in DOMAIN sockets :
          h \notin DOMAIN sockets' => sockets[h].rx = <<>>]_vars

\* a socket that reached Closed is about to be reaped by the pump
C37_ClosedBeforePump ==
    /\ pc = "pump"
    /\ \E h \in DOMAIN active_tunnels \cap DOMAIN sockets : sockets[h].state = "Closed"


(***************************************************************************)
(* The end of a connection: the client's FIN, the pump and the reap        *)
(* (stack.rs).                                                             *)
(***************************************************************************)
MaxEnd == 3        \* packets the TUN reader reads before the client falls silent

Fin(c, t) == [Ack(c, t) EXCEPT !.fin = TRUE]

\* one client's connection: it opens (the SYN may be retransmitted), acknowledges,
\* sends data and closes with FIN
EndPackets == {Syn("c1", T80), Ack("c1", T80), Fin("c1", T80)}

TunReaderEnd ==
    /\ "tun" \notin closed.ends
    /\ nPkts < MaxEnd
    /\ \E p \in EndPackets, d \in BOOLEAN :
          /\ d => (p = Ack("c1", T80))
          /\ rx_queue' = Append(rx_queue,
                 [p EXCEPT !.id = nPkts + 1, !.data = IF d THEN nPkts + 1 ELSE 0])
    /\ nPkts' = nPkts + 1
    /\ UNCHANGED <<fixedVars, pending_packets, tx_queue, relay_q, req_q, sockets,
                   active_tunnels, ingress_streams, pending_syns, feedback_q, tasks,
                   egress_ch, ip_addrs, pc, count, nTun, reqInfo, okTunnels,
                   droppedSyns, emittedNow, trapsNow>>

NextEnd ==
    \/ TunReaderEnd
    \/ TunWriter
    \/ Relayer
    \/ EchoTask
    \/ EventA_Recv
    \/ EventA_Next
    \/ EventA_Done
    \/ EventB
    \/ EventD
    \/ Poll
    \/ Pump

\* the loop's branches and the tasks are scheduled as in LoopFairness
EndFairness ==
    /\ SF_vars(EventA_Recv)
    /\ SF_vars(EventB)
    /\ SF_vars(EventD)
    /\ WF_vars(EventA_Next)
    /\ WF_vars(EventA_Done)
    /\ WF_vars(Poll)
    /\ WF_vars(Pump)
    /\ WF_vars(Relayer)
    /\ WF_vars(EchoTask)
    /\ WF_vars(TunWriter)

\* Fast mode with an echoing relayer and clients that close their connections
SpecEnd == InitIngress /\ [][NextEnd]_vars /\ EndFairness

\* the client has sent all it sends and the core has handled all of it
ClientSilent == nPkts = MaxEnd /\ rx_queue = <<>> /\ pending_packets = <<>>

\* the connection of the socket at h has ended: the client's FIN was received, or
\* the socket is still listening when the client has fallen silent
ConnectionEnded(h) ==
    /\ h \in DOMAIN sockets
    /\ \/ sockets[h].state = "CloseWait"
       \/ sockets[h].state = "Listen" /\ ClientSilent /\ pc = "select"

\* C38: a socket whose client connection has ended (the client's FIN was received,
\* or the handshake never completes on its listening socket) is eventually removed
\* from the registry and the socket set
C38_EndedSocketReaped ==
    \A h \in 0..(MaxEnd - 1) :
        ConnectionEnded(h) ~> (h \notin DOMAIN sockets /\ h \notin DOMAIN active_tunnels)

\* the client's FIN has been received on a registered socket
C38_FinReceived ==
    \E h \in DOMAIN sockets \cap DOMAIN active_tunnels : sockets[h].state = "CloseWait"

\* a listening socket made for a retransmitted SYN is left when the client is silent
C38_ListenerLeft ==
    /\ ClientSilent
    /\ \E h \in DOMAIN sockets \cap DOMAIN active_tunnels : sockets[h].state = "Listen"


\* C39: every key of active_tunnels is a handle present in the socket set, so the
\* socket lookup of the egress pump never fails: a socket leaves the socket set
\* only together with its registry entry, or before an entry was inserted for it
C39_RegistryKeysAreSockets == DOMAIN active_tunnels \subseteq DOMAIN sockets

\* the pump is about to walk a registry from which a handle was reaped before
C39_Witness ==
    /\ pc = "pump"
    /\ DOMAIN active_tunnels # {}
    /\ \E st \in ingress_streams : st.h \notin DOMAIN active_tunnels

\* a tunnel request was rejected: its socket was removed before any registry entry
C39_RejectedSeen ==
    /\ pc = "pump"
    /\ mode = "Fast"
    /\ DOMAIN active_tunnels # {}
    /\ \E t \in trapsNow : ~t.ok /\ t.dst.port # 0


\* C40: prepend_virtio_hdr_csum is total: for every input, the packets shorter than
\* 10 bytes with first nibble 4 and shorter than 7 bytes with first nibble 6
\* included, it returns a buffer of length 10 + len(packet) and does not panic
C40_PrependCsumTotal ==
    (opc = "out" /\ offOut.op = "csum") =>
        /\ offOut.framed # Panic
        /\ Len(offOut.framed.buf) = VIRTIO_NET_HDR_SIZE + Len(offIn.val)

\* prepend_virtio_hdr_csum returns a buffer of length 10 + len(packet) for every
\* packet that is empty, of another version, or long enough to hold its protocol byte
C40_TotalOnLongEnough ==
    (opc = "out" /\ offOut.op = "csum"
        /\ (offIn.val = <<>> \/ VersionOf(offIn.val) \notin {4, 6} \/ HasProto(offIn.val))) =>
        /\ offOut.framed.tag = "ok"
        /\ Len(offOut.framed.buf) = VIRTIO_NET_HDR_SIZE + Len(offIn.val)
====
